---------------------------- MODULE Spec2Model ----------------------------
(***************************************************************************)
(* A model of the go-pbkdf package (src/pbkdf.go): GenerateSalt, Hash,     *)
(* Params.Hash and Verify, with the text codec they share.                 *)
(*                                                                         *)
(* Text is a sequence of one-character strings, a byte slice is a sequence *)
(* of 0..255.  Every library routine the package calls is modelled by what *)
(* it does to such values: strings.Split, strconv.Atoi, fmt's %d,          *)
(* base64.RawStdEncoding and subtle.ConstantTimeCompare.  pbkdf2.Key is    *)
(* the external primitive: its block structure, its handling of the        *)
(* iteration count and key length, and the HMAC keying of the password are *)
(* written out, and the blocks of the pseudorandom function are the values *)
(* of PBKDF2-HMAC-SHA-256 and -SHA-512 on the inputs the model reaches,    *)
(* listed in PrfTable.  A Go int is an integer here; the model's inputs    *)
(* keep every number that is computed with below 2^31.                     *)
(***************************************************************************)
EXTENDS Integers, Sequences, FiniteSets, TLC

\* ------------------------------------------------------------- bounds

\* Longest password the caller supplies.
MaxPwLen == 2

\* ---------------------------------------------------------- constants

\* DefaultParams (pbkdf.go:42-47).
DefaultIterations == 120000
DefaultKeyLen == 32
DefaultSaltLen == 16

\* The two hash constructors a caller passes; "nil" is the unset HashFunc.
SHA256 == "sha256.New"
SHA512 == "sha512.New"
NilFunc == "nil"

DefaultParams ==
    [Iterations |-> DefaultIterations, KeyLen |-> DefaultKeyLen,
     SaltLen |-> DefaultSaltLen, HashFunc |-> SHA256]

\* Error values.  Go's nil error is "nil".
NilErr == "nil"
ErrSaltLength == "salt length must be positive"
ErrInvalidHash == "invalid or corrupted hash"
ErrRandRead == "crypto/rand: read failed"

\* ------------------------------------------------------------- text

\* "pbkdf2-sha256"
AlgTag == <<"p", "b", "k", "d", "f", "2", "-", "s", "h", "a", "2", "5", "6">>

Digits == <<"0", "1", "2", "3", "4", "5", "6", "7", "8", "9">>

IsDigit(c) == \E d \in 1..10 : Digits[d] = c

DigitVal(c) == (CHOOSE d \in 1..10 : Digits[d] = c) - 1

\* The decimal digits of n >= 0.
RECURSIVE DecimalOf(_)
DecimalOf(n) ==
    IF n < 10 THEN <<Digits[n + 1]>>
    ELSE DecimalOf(n \div 10) \o <<Digits[(n % 10) + 1]>>

\* fmt's %d of an int.
FormatInt(n) == IF n < 0 THEN <<"-">> \o DecimalOf(-n) ELSE DecimalOf(n)

RECURSIVE DigitsValue(_, _)
DigitsValue(s, acc) ==
    IF s = <<>> THEN acc
    ELSE DigitsValue(Tail(s), acc * 10 + DigitVal(Head(s)))

\* The digits of 2^63 - 1, of 2^63 and of 2^64 - 1: the largest int, the
\* magnitude of the smallest, and the largest uint64.
MaxIntText ==
    <<"9", "2", "2", "3", "3", "7", "2", "0", "3", "6", "8", "5", "4", "7",
      "7", "5", "8", "0", "7">>

MinIntText ==
    <<"9", "2", "2", "3", "3", "7", "2", "0", "3", "6", "8", "5", "4", "7",
      "7", "5", "8", "0", "8">>

MaxUintText ==
    <<"1", "8", "4", "4", "6", "7", "4", "4", "0", "7", "3", "7", "0", "9",
      "5", "5", "1", "6", "1", "5">>

\* The values Atoi returns with a range error; they are never computed with.
MaxInt == "1<<63 - 1"
MinInt == "-1<<63"

\* The number written by the digits d is larger than the one written by lim.
Exceeds(d, lim) ==
    LET nz == {k \in 1..Len(d) : d[k] # "0"}
        from == IF nz = {} THEN Len(d) + 1 ELSE CHOOSE k \in nz : \A m \in nz : k <= m
        t == SubSeq(d, from, Len(d))
    IN  \/ Len(t) > Len(lim)
        \/ /\ Len(t) = Len(lim)
           /\ \E k \in 1..Len(t) :
                /\ DigitVal(t[k]) > DigitVal(lim[k])
                /\ \A m \in 1..(k - 1) : t[m] = lim[m]

\* strconv.Atoi: an optional sign, then one or more decimal digits, which
\* must write a number an int holds.  The text is read from the left: a
\* character that is no digit is a syntax error (value 0), unless the digits
\* before it have already overflowed a uint64; digits that write a number
\* beyond an int are a range error (the value is the nearest bound).
Atoi(s) ==
    LET signed == s # <<>> /\ Head(s) \in {"-", "+"}
        neg == signed /\ Head(s) = "-"
        body == IF signed THEN Tail(s) ELSE s
        bad == {k \in 1..Len(body) : ~IsDigit(body[k])}
        run == IF bad = {} THEN body
               ELSE SubSeq(body, 1, (CHOOSE k \in bad : \A m \in bad : k <= m) - 1)
        clamp == [err |-> TRUE, val |-> IF neg THEN MinInt ELSE MaxInt]
    IN  IF body = <<>> THEN [err |-> TRUE, val |-> 0]
        ELSE IF bad # {}
        THEN IF Exceeds(run, MaxUintText) THEN clamp ELSE [err |-> TRUE, val |-> 0]
        ELSE IF Exceeds(run, IF neg THEN MinIntText ELSE MaxIntText) THEN clamp
        ELSE [err |-> FALSE,
              val |-> IF neg THEN -DigitsValue(body, 0) ELSE DigitsValue(body, 0)]

\* strings.Split(s, sep) for a one-character separator: the pieces between
\* the separators, so one piece more than there are separators.
Split(s, sep) ==
    LET at == {k \in 1..Len(s) : s[k] = sep}
        \* the position of the n-th separator; 0 and Len(s) + 1 bracket them
        pos(n) == IF n = 0 THEN 0
                  ELSE IF n > Cardinality(at) THEN Len(s) + 1
                  ELSE CHOOSE k \in at : Cardinality({m \in at : m < k}) = n - 1
    IN  [n \in 1..(Cardinality(at) + 1) |-> SubSeq(s, pos(n - 1) + 1, pos(n) - 1)]

\* ------------------------------------------------------------ base64

\* The standard alphabet of encoding/base64.
StdAlphabet ==
    <<"A", "B", "C", "D", "E", "F", "G", "H", "I", "J", "K", "L", "M",
      "N", "O", "P", "Q", "R", "S", "T", "U", "V", "W", "X", "Y", "Z",
      "a", "b", "c", "d", "e", "f", "g", "h", "i", "j", "k", "l", "m",
      "n", "o", "p", "q", "r", "s", "t", "u", "v", "w", "x", "y", "z",
      "0", "1", "2", "3", "4", "5", "6", "7", "8", "9", "+", "/">>

InAlphabet(c) == \E k \in 1..64 : StdAlphabet[k] = c

SextetOf(c) == (CHOOSE k \in 1..64 : StdAlphabet[k] = c) - 1

\* base64.RawStdEncoding.EncodeToString: three bytes give four characters;
\* a last group of one byte gives two, of two bytes three, with no padding.
RECURSIVE EncodeToString(_)
EncodeToString(src) ==
    IF src = <<>> THEN <<>>
    ELSE IF Len(src) = 1 THEN
        LET v == src[1] * 65536
        IN  <<StdAlphabet[(v \div 262144) + 1],
              StdAlphabet[((v \div 4096) % 64) + 1]>>
    ELSE IF Len(src) = 2 THEN
        LET v == src[1] * 65536 + src[2] * 256
        IN  <<StdAlphabet[(v \div 262144) + 1],
              StdAlphabet[((v \div 4096) % 64) + 1],
              StdAlphabet[((v \div 64) % 64) + 1]>>
    ELSE
        LET v == src[1] * 65536 + src[2] * 256 + src[3]
        IN  <<StdAlphabet[(v \div 262144) + 1],
              StdAlphabet[((v \div 4096) % 64) + 1],
              StdAlphabet[((v \div 64) % 64) + 1],
              StdAlphabet[(v % 64) + 1]>>
            \o EncodeToString(SubSeq(src, 4, Len(src)))

\* The decoder skips carriage returns and line feeds.
NotNewline(c) == c \notin {"\r", "\n"}

StripNewlines(s) == SelectSeq(s, NotNewline)

RECURSIVE DecodeQuanta(_)
DecodeQuanta(s) ==
    IF s = <<>> THEN <<>>
    ELSE IF Len(s) = 2 THEN
        LET v == SextetOf(s[1]) * 262144 + SextetOf(s[2]) * 4096
        IN  <<v \div 65536>>
    ELSE IF Len(s) = 3 THEN
        LET v == SextetOf(s[1]) * 262144 + SextetOf(s[2]) * 4096
                 + SextetOf(s[3]) * 64
        IN  <<v \div 65536, (v \div 256) % 256>>
    ELSE
        LET v == SextetOf(s[1]) * 262144 + SextetOf(s[2]) * 4096
                 + SextetOf(s[3]) * 64 + SextetOf(s[4])
        IN  <<v \div 65536, (v \div 256) % 256, v % 256>>
            \o DecodeQuanta(SubSeq(s, 5, Len(s)))

\* base64.StdEncoding in place of RawStdEncoding: the text must come in full
\* groups of four characters, padded with '='.
DecodeStringPadded(s) ==
    LET t == StripNewlines(s)
        body == SelectSeq(t, LAMBDA c : c # "=")
    IN  IF (\E k \in 1..Len(body) : ~InAlphabet(body[k])) \/ Len(t) % 4 # 0
           \/ Len(body) % 4 = 1
        THEN [err |-> TRUE, bytes |-> <<>>]
        ELSE [err |-> FALSE, bytes |-> DecodeQuanta(body)]

\* base64.RawStdEncoding.DecodeString: an error for a character outside the
\* alphabet ('=' included, there is no padding character) and for a last
\* group of a single character; unused trailing bits are not checked.
DecodeString(s) ==
    LET t == StripNewlines(s)
    IN  IF (\E k \in 1..Len(t) : ~InAlphabet(t[k])) \/ Len(t) % 4 = 1
        THEN [err |-> TRUE, bytes |-> <<>>]
        ELSE [err |-> FALSE, bytes |-> DecodeQuanta(t)]

\* ------------------------------------------------- the PBKDF2 primitive

\* hash.Hash.Size and hash.Hash.BlockSize of the two constructors.
Size(h) == IF h = SHA256 THEN 32 ELSE 64

BlockSize(h) == IF h = SHA256 THEN 64 ELSE 128

\* A password one byte longer than the SHA-256 block.
LongPassword == [j \in 1..(BlockSize(SHA256) + 1) |-> 97]

\* The digest HMAC takes of a key longer than a block: SHA-256 of
\* LongPassword, the one such key among the inputs.
DigestTable ==
       (<<SHA256, LongPassword>> :> <<99, 83, 97, 196, 139, 185, 234, 177, 65,
        152, 231, 110, 168, 171, 127, 26, 65, 104, 93, 106, 214, 42, 169, 20,
        109, 48, 29, 79, 23, 235, 10, 224>>)

Sum(h, msg) == DigestTable[<<h, msg>>]

\* hmac.New(h, password): a key longer than the block size is replaced by
\* its digest, and the key is then padded with zero bytes to the block
\* size.  Two passwords that differ only in trailing zero bytes give the
\* same HMAC key.
HmacKey(h, password) ==
    LET k == IF Len(password) > BlockSize(h) THEN Sum(h, password) ELSE password
    IN  [j \in 1..BlockSize(h) |-> IF j <= Len(k) THEN k[j] ELSE 0]

\* The inner loop of pbkdf2.Key runs for n := 2; n <= iter: an iteration
\* count below 2 (zero and negative counts included) leaves U_1 alone.
Rounds(iter) == IF iter < 2 THEN 1 ELSE iter

\* A padded HMAC key without its trailing zero bytes, as PrfTable lists it.
TrimZeros(key) ==
    LET nz == {j \in 1..Len(key) : key[j] # 0}
        n == IF nz = {} THEN 0 ELSE CHOOSE j \in nz : \A k \in nz : k <= j
    IN  SubSeq(key, 1, n)

\* The blocks T_block = U_1 xor ... xor U_rounds of PBKDF2 (RFC 8018) with
\* HMAC-SHA-256 and HMAC-SHA-512, as golang.org/x/crypto/pbkdf2 computes
\* them, for every HMAC key, salt and round count the inputs below reach.
\* An entry is <<h, HMAC key, salt, rounds, block>> :> T_block.
PrfTable ==
    \* sha256.New, 1 round, block 1
       (
           (<<SHA256, <<>>, <<>>, 1, 1>> :> <<247, 206, 11, 101, 61, 45, 114,
            164, 16, 140, 245, 171, 233, 18, 255, 221, 119, 118, 22, 219, 187,
            39, 167, 14, 130, 4, 243, 174, 45, 15, 111, 173>>)
        @@ (<<SHA256, <<>>, <<0>>, 1, 1>> :> <<91, 133, 200, 41, 186, 150,
            181, 105, 82, 44, 151, 7, 1, 113, 173, 103, 23, 209, 184, 173, 65,
            64, 7, 199, 94, 30, 118, 78, 83, 101, 210, 240>>)
        @@ (<<SHA256, <<>>, <<0, 0, 0>>, 1, 1>> :> <<142, 246, 237, 204, 113,
            45, 174, 16, 230, 153, 149, 10, 31, 187, 7, 71, 148, 155, 35, 221,
            32, 234, 53, 34, 9, 91, 93, 245, 27, 166, 210, 28>>)
        @@ (<<SHA256, <<>>, <<37, 74, 111>>, 1, 1>> :> <<132, 124, 63, 41,
            178, 131, 91, 102, 142, 135, 243, 106, 218, 170, 107, 173, 164,
            194, 131, 114, 187, 68, 75, 25, 128, 198, 43, 196, 165, 183, 24,
            6>>)
        @@ (<<SHA256, <<>>, <<0, 0, 0, 0, 0, 0, 0, 0, 0, 0, 0, 0, 0, 0, 0,
            0>>, 1, 1>> :> <<200, 194, 239, 147, 98, 79, 83, 247, 70, 173, 86,
            100, 68, 31, 158, 4, 241, 221, 230, 200, 79, 143, 10, 6, 104, 157,
            159, 78, 246, 30, 193, 189>>)
        @@ (<<SHA256, <<>>, <<37, 74, 111, 148, 185, 222, 3, 40, 77, 114, 151,
            188, 225, 6, 43, 80>>, 1, 1>> :> <<66, 149, 104, 145, 211, 85,
            215, 100, 107, 73, 120, 195, 18, 127, 217, 57, 224, 216, 187, 162,
            188, 133, 75, 16, 164, 36, 224, 248, 31, 74, 143, 184>>)
        @@ (<<SHA256, <<97>>, <<>>, 1, 1>> :> <<225, 241, 50, 163, 225, 22,
            52, 135, 216, 122, 180, 32, 29, 215, 204, 60, 39, 107, 240, 210,
            95, 157, 4, 216, 57, 216, 74, 61, 227, 71, 222, 246>>)
        @@ (<<SHA256, <<97>>, <<0>>, 1, 1>> :> <<190, 148, 2, 234, 94, 151,
            21, 155, 134, 55, 147, 52, 232, 132, 108, 218, 201, 178, 29, 52,
            190, 200, 242, 242, 159, 21, 154, 74, 109, 188, 12, 170>>)
        @@ (<<SHA256, <<97>>, <<0, 0, 0>>, 1, 1>> :> <<51, 135, 48, 191, 160,
            46, 179, 232, 177, 15, 186, 158, 12, 162, 172, 143, 111, 153, 132,
            239, 156, 226, 210, 229, 29, 233, 137, 97, 21, 64, 201, 182>>)
        @@ (<<SHA256, <<97>>, <<37, 74, 111>>, 1, 1>> :> <<200, 110, 154, 82,
            231, 124, 1, 78, 219, 242, 79, 62, 59, 29, 110, 249, 202, 79, 244,
            166, 146, 210, 62, 180, 111, 252, 243, 133, 194, 190, 149, 22>>)
        @@ (<<SHA256, <<97>>, <<0, 0, 0, 0, 0, 0, 0, 0, 0, 0, 0, 0, 0, 0, 0,
            0>>, 1, 1>> :> <<41, 217, 26, 253, 138, 219, 42, 72, 174, 210, 57,
            145, 187, 47, 3, 232, 243, 140, 151, 27, 198, 172, 183, 252, 102,
            218, 40, 140, 122, 190, 76, 38>>)
        @@ (<<SHA256, <<97>>, <<37, 74, 111, 148, 185, 222, 3, 40, 77, 114,
            151, 188, 225, 6, 43, 80>>, 1, 1>> :> <<219, 64, 72, 22, 234, 117,
            223, 4, 220, 149, 75, 237, 212, 238, 14, 164, 213, 195, 161, 19,
            7, 225, 165, 239, 50, 105, 113, 34, 165, 105, 66, 230>>)
        @@ (<<SHA256, <<0, 97>>, <<>>, 1, 1>> :> <<223, 83, 178, 108, 71, 89,
            242, 198, 148, 177, 47, 232, 31, 9, 77, 68, 237, 102, 194, 166,
            177, 227, 117, 100, 47, 3, 224, 150, 199, 151, 247, 152>>)
        @@ (<<SHA256, <<0, 97>>, <<0>>, 1, 1>> :> <<48, 113, 239, 134, 156,
            117, 102, 254, 62, 142, 50, 16, 69, 209, 122, 178, 236, 209, 200,
            239, 244, 214, 63, 65, 69, 82, 9, 171, 64, 90, 178, 77>>)
        @@ (<<SHA256, <<0, 97>>, <<0, 0, 0>>, 1, 1>> :> <<122, 221, 246, 34,
            248, 3, 40, 157, 12, 125, 133, 143, 74, 228, 56, 131, 225, 27,
            183, 43, 183, 164, 133, 207, 58, 228, 175, 12, 221, 111, 233,
            248>>)
        @@ (<<SHA256, <<0, 97>>, <<37, 74, 111>>, 1, 1>> :> <<166, 192, 34,
            223, 130, 252, 164, 32, 240, 206, 29, 226, 53, 53, 56, 246, 65,
            84, 197, 59, 59, 250, 10, 26, 219, 197, 112, 159, 33, 104, 243,
            65>>)
        @@ (<<SHA256, <<0, 97>>, <<0, 0, 0, 0, 0, 0, 0, 0, 0, 0, 0, 0, 0, 0,
            0, 0>>, 1, 1>> :> <<46, 90, 229, 145, 186, 2, 78, 124, 49, 190,
            129, 3, 56, 108, 229, 45, 118, 123, 6, 223, 165, 64, 241, 41, 236,
            10, 125, 3, 219, 230, 235, 241>>)
        @@ (<<SHA256, <<0, 97>>, <<37, 74, 111, 148, 185, 222, 3, 40, 77, 114,
            151, 188, 225, 6, 43, 80>>, 1, 1>> :> <<235, 230, 93, 148, 177,
            125, 21, 37, 131, 70, 27, 9, 165, 153, 80, 147, 48, 140, 205, 222,
            129, 23, 248, 121, 70, 242, 86, 46, 215, 242, 252, 181>>)
        @@ (<<SHA256, <<97, 97>>, <<>>, 1, 1>> :> <<91, 239, 223, 188, 168,
            145, 6, 94, 216, 31, 204, 172, 132, 75, 193, 50, 211, 198, 28, 35,
            22, 59, 42, 114, 23, 221, 234, 204, 62, 51, 104, 46>>)
        @@ (<<SHA256, <<97, 97>>, <<0>>, 1, 1>> :> <<63, 206, 211, 105, 188,
            47, 44, 204, 156, 227, 208, 157, 221, 209, 205, 164, 96, 80, 38,
            49, 252, 39, 8, 112, 32, 57, 147, 156, 57, 205, 191, 60>>)
        @@ (<<SHA256, <<97, 97>>, <<0, 0, 0>>, 1, 1>> :> <<237, 154, 59, 21,
            191, 22, 95, 92, 153, 127, 40, 60, 80, 62, 64, 136, 254, 142, 149,
            93, 203, 255, 226, 248, 75, 253, 127, 223, 89, 196, 31, 230>>)
        @@ (<<SHA256, <<97, 97>>, <<37, 74, 111>>, 1, 1>> :> <<4, 182, 2, 232,
            151, 36, 33, 249, 76, 119, 37, 159, 20, 210, 4, 169, 25, 213, 38,
            35, 136, 183, 96, 209, 174, 139, 0, 67, 46, 56, 186, 177>>)
        @@ (<<SHA256, <<97, 97>>, <<0, 0, 0, 0, 0, 0, 0, 0, 0, 0, 0, 0, 0, 0,
            0, 0>>, 1, 1>> :> <<161, 55, 7, 101, 157, 116, 16, 132, 60, 71,
            82, 52, 155, 222, 10, 212, 140, 221, 55, 189, 118, 2, 33, 3, 108,
            209, 127, 110, 186, 154, 24, 158>>)
        @@ (<<SHA256, <<97, 97>>, <<37, 74, 111, 148, 185, 222, 3, 40, 77,
            114, 151, 188, 225, 6, 43, 80>>, 1, 1>> :> <<121, 19, 182, 159,
            202, 117, 26, 63, 53, 104, 46, 251, 37, 65, 140, 4, 104, 98, 143,
            241, 154, 165, 82, 23, 17, 226, 28, 69, 147, 77, 215, 170>>)
        @@ (<<SHA256, <<0, 0, 97>>, <<>>, 1, 1>> :> <<149, 28, 47, 164, 132,
            154, 222, 187, 217, 76, 24, 36, 55, 244, 130, 37, 154, 41, 210,
            70, 213, 197, 22, 178, 176, 92, 165, 255, 141, 23, 19, 90>>)
        @@ (<<SHA256, <<0, 0, 97>>, <<0>>, 1, 1>> :> <<181, 35, 55, 249, 35,
            64, 118, 185, 208, 224, 32, 232, 179, 134, 82, 42, 95, 145, 165,
            159, 239, 23, 177, 60, 236, 79, 163, 84, 92, 179, 186, 160>>)
        @@ (<<SHA256, <<0, 0, 97>>, <<0, 0, 0>>, 1, 1>> :> <<51, 212, 37, 46,
            205, 176, 31, 99, 110, 33, 141, 228, 204, 161, 18, 36, 255, 154,
            93, 47, 43, 169, 77, 105, 118, 49, 5, 172, 80, 174, 1, 156>>)
        @@ (<<SHA256, <<0, 0, 97>>, <<37, 74, 111>>, 1, 1>> :> <<166, 69, 152,
            208, 191, 82, 51, 212, 66, 180, 13, 56, 47, 249, 71, 166, 199, 93,
            144, 239, 250, 146, 222, 36, 248, 194, 178, 48, 188, 142, 8,
            162>>)
        @@ (<<SHA256, <<0, 0, 97>>, <<0, 0, 0, 0, 0, 0, 0, 0, 0, 0, 0, 0, 0,
            0, 0, 0>>, 1, 1>> :> <<163, 255, 193, 199, 53, 211, 76, 152, 188,
            39, 192, 240, 104, 65, 184, 175, 191, 25, 35, 105, 118, 80, 77,
            133, 143, 172, 244, 156, 44, 231, 136, 255>>)
        @@ (<<SHA256, <<0, 0, 97>>, <<37, 74, 111, 148, 185, 222, 3, 40, 77,
            114, 151, 188, 225, 6, 43, 80>>, 1, 1>> :> <<6, 61, 66, 40, 48,
            116, 119, 37, 109, 26, 239, 98, 89, 222, 75, 88, 204, 179, 86,
            177, 160, 15, 136, 114, 2, 46, 242, 32, 20, 240, 58, 203>>)
        @@ (<<SHA256, <<0, 97, 97>>, <<>>, 1, 1>> :> <<10, 192, 173, 215, 128,
            20, 195, 197, 154, 203, 130, 83, 188, 21, 213, 228, 166, 100, 203,
            236, 75, 241, 231, 11, 50, 149, 155, 164, 131, 7, 174, 46>>)
        @@ (<<SHA256, <<0, 97, 97>>, <<0>>, 1, 1>> :> <<236, 85, 78, 49, 72,
            94, 101, 96, 139, 106, 192, 181, 74, 84, 149, 186, 113, 150, 65,
            33, 68, 199, 109, 8, 240, 62, 128, 176, 253, 174, 26, 51>>)
        @@ (<<SHA256, <<0, 97, 97>>, <<0, 0, 0>>, 1, 1>> :> <<31, 95, 5, 12,
            246, 120, 114, 36, 73, 9, 35, 57, 172, 249, 121, 190, 124, 191,
            61, 165, 74, 216, 207, 230, 13, 254, 60, 157, 19, 244, 79, 240>>)
        @@ (<<SHA256, <<0, 97, 97>>, <<37, 74, 111>>, 1, 1>> :> <<146, 96,
            111, 172, 21, 30, 104, 82, 179, 26, 151, 19, 189, 11, 179, 250,
            227, 122, 249, 24, 252, 61, 154, 85, 49, 233, 8, 222, 229, 222,
            184, 222>>)
        @@ (<<SHA256, <<0, 97, 97>>, <<0, 0, 0, 0, 0, 0, 0, 0, 0, 0, 0, 0, 0,
            0, 0, 0>>, 1, 1>> :> <<82, 79, 238, 12, 0, 4, 14, 225, 161, 183,
            54, 173, 247, 22, 93, 227, 224, 39, 47, 143, 139, 142, 22, 146,
            208, 14, 152, 103, 189, 6, 69, 2>>)
        @@ (<<SHA256, <<0, 97, 97>>, <<37, 74, 111, 148, 185, 222, 3, 40, 77,
            114, 151, 188, 225, 6, 43, 80>>, 1, 1>> :> <<101, 48, 255, 253,
            28, 125, 214, 47, 48, 93, 189, 226, 89, 143, 55, 72, 80, 143, 68,
            7, 185, 153, 163, 61, 62, 17, 58, 193, 250, 56, 176, 0>>)
        @@ (<<SHA256, <<97, 0, 97>>, <<>>, 1, 1>> :> <<150, 78, 191, 158, 168,
            223, 29, 94, 139, 110, 233, 147, 203, 7, 41, 178, 192, 183, 79,
            73, 142, 38, 175, 62, 140, 115, 127, 152, 37, 44, 18, 13>>)
        @@ (<<SHA256, <<97, 0, 97>>, <<0>>, 1, 1>> :> <<43, 140, 85, 42, 233,
            83, 104, 145, 164, 75, 117, 96, 228, 42, 141, 211, 74, 4, 217,
            225, 180, 77, 26, 153, 58, 221, 196, 151, 77, 112, 136, 50>>)
        @@ (<<SHA256, <<97, 0, 97>>, <<0, 0, 0>>, 1, 1>> :> <<132, 162, 46,
            205, 227, 48, 35, 216, 188, 237, 1, 171, 212, 86, 152, 92, 210,
            232, 113, 140, 64, 241, 179, 172, 137, 198, 179, 168, 58, 84, 239,
            62>>)
        @@ (<<SHA256, <<97, 0, 97>>, <<37, 74, 111>>, 1, 1>> :> <<232, 85,
            242, 231, 59, 109, 59, 9, 189, 107, 204, 215, 67, 194, 174, 96,
            139, 121, 22, 158, 84, 204, 120, 60, 26, 237, 151, 92, 69, 67,
            191, 163>>)
        @@ (<<SHA256, <<97, 0, 97>>, <<0, 0, 0, 0, 0, 0, 0, 0, 0, 0, 0, 0, 0,
            0, 0, 0>>, 1, 1>> :> <<155, 2, 135, 105, 229, 146, 61, 114, 203,
            46, 157, 168, 129, 134, 175, 96, 36, 128, 109, 243, 141, 149, 72,
            211, 145, 179, 218, 61, 9, 150, 162, 29>>)
        @@ (<<SHA256, <<97, 0, 97>>, <<37, 74, 111, 148, 185, 222, 3, 40, 77,
            114, 151, 188, 225, 6, 43, 80>>, 1, 1>> :> <<57, 250, 102, 115,
            120, 152, 254, 48, 14, 214, 172, 194, 224, 135, 99, 76, 69, 100,
            241, 168, 156, 237, 63, 72, 167, 43, 127, 204, 11, 94, 186, 88>>)
        @@ (<<SHA256, <<97, 97, 97>>, <<>>, 1, 1>> :> <<198, 151, 170, 75,
            188, 42, 43, 195, 187, 154, 8, 245, 70, 49, 205, 143, 30, 110,
            210, 132, 219, 196, 69, 111, 251, 240, 50, 59, 221, 250, 132,
            29>>)
        @@ (<<SHA256, <<97, 97, 97>>, <<0>>, 1, 1>> :> <<32, 136, 11, 208, 60,
            138, 126, 21, 32, 148, 180, 176, 178, 243, 196, 63, 241, 137, 87,
            138, 187, 21, 19, 86, 248, 204, 130, 1, 171, 248, 190, 170>>)
        @@ (<<SHA256, <<97, 97, 97>>, <<0, 0, 0>>, 1, 1>> :> <<253, 104, 85,
            31, 75, 52, 230, 7, 242, 242, 4, 198, 34, 126, 22, 91, 194, 232,
            85, 116, 10, 135, 73, 77, 80, 57, 133, 136, 231, 131, 192, 148>>)
        @@ (<<SHA256, <<97, 97, 97>>, <<37, 74, 111>>, 1, 1>> :> <<141, 232,
            60, 3, 17, 17, 54, 128, 125, 146, 19, 217, 26, 157, 126, 60, 172,
            187, 174, 99, 34, 158, 219, 247, 213, 38, 57, 98, 186, 80, 246,
            99>>)
        @@ (<<SHA256, <<97, 97, 97>>, <<0, 0, 0, 0, 0, 0, 0, 0, 0, 0, 0, 0, 0,
            0, 0, 0>>, 1, 1>> :> <<1, 81, 215, 102, 186, 180, 94, 100, 116,
            32, 148, 222, 192, 33, 145, 131, 143, 196, 162, 74, 219, 116, 118,
            7, 234, 55, 64, 136, 125, 208, 71, 194>>)
        @@ (<<SHA256, <<97, 97, 97>>, <<37, 74, 111, 148, 185, 222, 3, 40, 77,
            114, 151, 188, 225, 6, 43, 80>>, 1, 1>> :> <<230, 79, 24, 169,
            123, 237, 215, 227, 162, 12, 58, 84, 36, 156, 225, 62, 92, 24,
            138, 70, 39, 114, 130, 1, 223, 69, 43, 32, 115, 30, 250, 51>>)
        @@ (<<SHA256, <<99, 83, 97, 196, 139, 185, 234, 177, 65, 152, 231,
            110, 168, 171, 127, 26, 65, 104, 93, 106, 214, 42, 169, 20, 109,
            48, 29, 79, 23, 235, 10, 224>>, <<>>, 1, 1>> :> <<75, 92, 16, 60,
            224, 180, 42, 117, 137, 168, 247, 89, 90, 23, 222, 230, 186, 95,
            140, 56, 85, 72, 2, 31, 35, 34, 122, 136, 83, 8, 185, 53>>)
        @@ (<<SHA256, <<99, 83, 97, 196, 139, 185, 234, 177, 65, 152, 231,
            110, 168, 171, 127, 26, 65, 104, 93, 106, 214, 42, 169, 20, 109,
            48, 29, 79, 23, 235, 10, 224>>, <<0>>, 1, 1>> :> <<9, 206, 161,
            142, 185, 250, 118, 46, 234, 41, 133, 164, 220, 88, 69, 155, 207,
            79, 129, 246, 120, 219, 167, 96, 56, 86, 66, 144, 44, 255, 121,
            91>>)
        @@ (<<SHA256, <<99, 83, 97, 196, 139, 185, 234, 177, 65, 152, 231,
            110, 168, 171, 127, 26, 65, 104, 93, 106, 214, 42, 169, 20, 109,
            48, 29, 79, 23, 235, 10, 224>>, <<0, 0, 0>>, 1, 1>> :> <<181, 33,
            208, 153, 243, 153, 196, 234, 179, 71, 155, 23, 251, 252, 235, 4,
            90, 37, 200, 150, 5, 236, 147, 124, 74, 192, 170, 110, 26, 90, 14,
            221>>)
        @@ (<<SHA256, <<99, 83, 97, 196, 139, 185, 234, 177, 65, 152, 231,
            110, 168, 171, 127, 26, 65, 104, 93, 106, 214, 42, 169, 20, 109,
            48, 29, 79, 23, 235, 10, 224>>, <<37, 74, 111>>, 1, 1>> :> <<194,
            216, 170, 217, 246, 231, 107, 223, 57, 209, 219, 86, 158, 34, 145,
            217, 130, 14, 193, 125, 80, 91, 196, 37, 61, 39, 11, 44, 242, 200,
            37, 147>>)
        @@ (<<SHA256, <<99, 83, 97, 196, 139, 185, 234, 177, 65, 152, 231,
            110, 168, 171, 127, 26, 65, 104, 93, 106, 214, 42, 169, 20, 109,
            48, 29, 79, 23, 235, 10, 224>>, <<0, 0, 0, 0, 0, 0, 0, 0, 0, 0, 0,
            0, 0, 0, 0, 0>>, 1, 1>> :> <<143, 188, 220, 236, 224, 209, 152,
            250, 98, 203, 245, 161, 214, 107, 48, 8, 239, 8, 98, 214, 187,
            214, 143, 231, 247, 233, 233, 131, 148, 164, 152, 212>>)
        @@ (<<SHA256, <<99, 83, 97, 196, 139, 185, 234, 177, 65, 152, 231,
            110, 168, 171, 127, 26, 65, 104, 93, 106, 214, 42, 169, 20, 109,
            48, 29, 79, 23, 235, 10, 224>>, <<37, 74, 111, 148, 185, 222, 3,
            40, 77, 114, 151, 188, 225, 6, 43, 80>>, 1, 1>> :> <<135, 120,
            118, 174, 17, 37, 161, 101, 62, 110, 236, 162, 195, 239, 53, 14,
            128, 255, 218, 223, 96, 163, 235, 218, 105, 70, 6, 196, 123, 130,
            176, 175>>)
    )
    \* sha256.New, 1 round, block 2
    @@ (
           (<<SHA256, <<>>, <<>>, 1, 2>> :> <<137, 246, 143, 72, 17, 209, 232,
            123, 204, 59, 215, 64, 10, 159, 253, 41, 9, 79, 1, 132, 99, 149,
            116, 243, 154, 229, 161, 49, 82, 23, 188, 215>>)
        @@ (<<SHA256, <<>>, <<0>>, 1, 2>> :> <<161, 86, 143, 68, 48, 159, 181,
            172, 166, 7, 69, 20, 232, 10, 246, 135, 240, 43, 169, 234, 158, 5,
            92, 247, 103, 138, 150, 163, 83, 177, 72, 241>>)
        @@ (<<SHA256, <<>>, <<0, 0, 0>>, 1, 2>> :> <<58, 78, 232, 39, 0, 154,
            56, 110, 90, 20, 22, 65, 244, 58, 105, 192, 221, 157, 87, 185,
            250, 126, 41, 243, 25, 209, 149, 67, 92, 101, 156, 182>>)
        @@ (<<SHA256, <<>>, <<37, 74, 111>>, 1, 2>> :> <<130, 38, 134, 145,
            117, 199, 120, 15, 109, 212, 158, 91, 120, 98, 205, 1, 130, 167,
            50, 134, 84, 248, 125, 54, 129, 35, 226, 74, 208, 157, 191, 242>>)
        @@ (<<SHA256, <<>>, <<0, 0, 0, 0, 0, 0, 0, 0, 0, 0, 0, 0, 0, 0, 0,
            0>>, 1, 2>> :> <<36, 147, 91, 61, 28, 240, 8, 116, 31, 116, 227,
            161, 156, 106, 154, 71, 74, 251, 63, 57, 244, 240, 83, 100, 31,
            140, 3, 58, 109, 17, 203, 108>>)
        @@ (<<SHA256, <<>>, <<37, 74, 111, 148, 185, 222, 3, 40, 77, 114, 151,
            188, 225, 6, 43, 80>>, 1, 2>> :> <<191, 172, 135, 157, 245, 146,
            190, 134, 1, 116, 28, 118, 221, 169, 181, 116, 182, 36, 144, 57,
            96, 242, 64, 235, 85, 216, 124, 227, 147, 14, 63, 133>>)
        @@ (<<SHA256, <<97>>, <<>>, 1, 2>> :> <<209, 173, 252, 133, 127, 81,
            139, 233, 186, 31, 124, 150, 181, 147, 172, 201, 14, 254, 102, 78,
            90, 206, 224, 226, 149, 36, 76, 121, 175, 39, 65, 206>>)
        @@ (<<SHA256, <<97>>, <<0>>, 1, 2>> :> <<84, 39, 224, 225, 148, 179,
            243, 243, 211, 34, 95, 73, 67, 104, 205, 20, 215, 3, 222, 20, 193,
            139, 43, 212, 175, 190, 6, 103, 35, 219, 87, 90>>)
        @@ (<<SHA256, <<97>>, <<0, 0, 0>>, 1, 2>> :> <<69, 81, 213, 174, 100,
            223, 20, 156, 221, 85, 94, 37, 119, 61, 0, 144, 99, 209, 71, 112,
            37, 173, 115, 175, 254, 176, 157, 98, 204, 93, 24, 237>>)
        @@ (<<SHA256, <<97>>, <<37, 74, 111>>, 1, 2>> :> <<254, 0, 102, 228,
            27, 251, 134, 128, 252, 8, 144, 206, 217, 163, 83, 159, 200, 177,
            118, 147, 31, 128, 186, 202, 138, 106, 155, 213, 65, 180, 181,
            107>>)
        @@ (<<SHA256, <<97>>, <<0, 0, 0, 0, 0, 0, 0, 0, 0, 0, 0, 0, 0, 0, 0,
            0>>, 1, 2>> :> <<5, 152, 228, 36, 12, 155, 64, 136, 35, 242, 210,
            246, 5, 144, 104, 102, 3, 115, 74, 63, 219, 169, 222, 60, 198,
            238, 243, 83, 241, 164, 73, 203>>)
        @@ (<<SHA256, <<97>>, <<37, 74, 111, 148, 185, 222, 3, 40, 77, 114,
            151, 188, 225, 6, 43, 80>>, 1, 2>> :> <<26, 171, 199, 164, 85, 49,
            107, 52, 118, 56, 101, 252, 100, 55, 180, 192, 194, 137, 219, 222,
            175, 163, 185, 214, 126, 187, 87, 121, 64, 121, 149, 154>>)
        @@ (<<SHA256, <<0, 97>>, <<>>, 1, 2>> :> <<55, 166, 6, 248, 195, 31,
            188, 15, 184, 93, 113, 78, 150, 92, 37, 190, 124, 164, 47, 155,
            154, 89, 132, 207, 218, 105, 239, 20, 101, 120, 36, 210>>)
        @@ (<<SHA256, <<0, 97>>, <<0>>, 1, 2>> :> <<142, 204, 139, 226, 58,
            41, 21, 143, 255, 179, 252, 227, 134, 201, 220, 9, 106, 48, 161,
            187, 136, 222, 28, 168, 111, 156, 176, 135, 133, 233, 167, 153>>)
        @@ (<<SHA256, <<0, 97>>, <<0, 0, 0>>, 1, 2>> :> <<183, 95, 105, 113,
            149, 145, 168, 172, 17, 29, 221, 182, 240, 79, 83, 72, 244, 171,
            177, 42, 90, 158, 125, 89, 197, 117, 164, 242, 242, 7, 5, 228>>)
        @@ (<<SHA256, <<0, 97>>, <<37, 74, 111>>, 1, 2>> :> <<237, 25, 160,
            46, 192, 19, 166, 226, 107, 114, 2, 35, 99, 60, 178, 136, 143,
            196, 221, 97, 223, 87, 84, 117, 178, 206, 34, 78, 30, 110, 20,
            86>>)
        @@ (<<SHA256, <<0, 97>>, <<0, 0, 0, 0, 0, 0, 0, 0, 0, 0, 0, 0, 0, 0,
            0, 0>>, 1, 2>> :> <<207, 246, 243, 52, 59, 235, 16, 7, 170, 58,
            168, 235, 0, 123, 146, 215, 220, 83, 79, 223, 167, 85, 128, 128,
            81, 95, 98, 136, 183, 215, 235, 177>>)
        @@ (<<SHA256, <<0, 97>>, <<37, 74, 111, 148, 185, 222, 3, 40, 77, 114,
            151, 188, 225, 6, 43, 80>>, 1, 2>> :> <<121, 162, 34, 147, 71, 23,
            37, 46, 186, 75, 73, 245, 50, 163, 120, 40, 92, 122, 204, 29, 126,
            214, 199, 216, 204, 79, 52, 92, 114, 212, 45, 137>>)
        @@ (<<SHA256, <<97, 97>>, <<>>, 1, 2>> :> <<73, 167, 199, 103, 60, 80,
            159, 196, 7, 60, 60, 220, 7, 98, 137, 178, 75, 62, 176, 235, 95,
            212, 212, 145, 72, 212, 2, 10, 65, 15, 78, 143>>)
        @@ (<<SHA256, <<97, 97>>, <<0>>, 1, 2>> :> <<232, 49, 35, 10, 204, 41,
            76, 200, 151, 220, 86, 160, 101, 171, 45, 41, 107, 172, 246, 83,
            110, 244, 84, 181, 115, 99, 167, 225, 111, 71, 77, 210>>)
        @@ (<<SHA256, <<97, 97>>, <<0, 0, 0>>, 1, 2>> :> <<175, 206, 77, 120,
            48, 107, 124, 63, 101, 225, 146, 72, 226, 190, 177, 204, 106, 57,
            252, 77, 41, 202, 137, 220, 68, 48, 149, 35, 168, 36, 39, 244>>)
        @@ (<<SHA256, <<97, 97>>, <<37, 74, 111>>, 1, 2>> :> <<240, 150, 37,
            142, 101, 5, 101, 100, 74, 18, 51, 228, 83, 64, 96, 85, 140, 107,
            173, 46, 117, 249, 53, 90, 158, 56, 207, 162, 235, 87, 82, 18>>)
        @@ (<<SHA256, <<97, 97>>, <<0, 0, 0, 0, 0, 0, 0, 0, 0, 0, 0, 0, 0, 0,
            0, 0>>, 1, 2>> :> <<237, 218, 232, 149, 231, 89, 123, 53, 191, 5,
            235, 85, 42, 230, 27, 89, 85, 159, 12, 11, 252, 144, 102, 71, 161,
            80, 58, 84, 224, 207, 216, 237>>)
        @@ (<<SHA256, <<97, 97>>, <<37, 74, 111, 148, 185, 222, 3, 40, 77,
            114, 151, 188, 225, 6, 43, 80>>, 1, 2>> :> <<141, 138, 213, 75,
            61, 121, 13, 136, 252, 30, 199, 125, 175, 105, 233, 121, 166, 22,
            39, 206, 95, 163, 212, 38, 57, 130, 129, 88, 42, 8, 35, 23>>)
        @@ (<<SHA256, <<0, 0, 97>>, <<>>, 1, 2>> :> <<109, 14, 144, 8, 33, 9,
            113, 200, 32, 123, 39, 61, 253, 26, 90, 193, 51, 93, 32, 184, 29,
            230, 156, 144, 133, 226, 30, 184, 26, 143, 119, 61>>)
        @@ (<<SHA256, <<0, 0, 97>>, <<0>>, 1, 2>> :> <<50, 249, 26, 39, 90,
            157, 123, 9, 102, 105, 115, 29, 83, 79, 48, 101, 215, 74, 10, 75,
            79, 137, 181, 119, 105, 40, 163, 239, 13, 219, 228, 108>>)
        @@ (<<SHA256, <<0, 0, 97>>, <<0, 0, 0>>, 1, 2>> :> <<1, 151, 90, 60,
            141, 120, 42, 214, 73, 93, 59, 196, 187, 41, 211, 243, 111, 249,
            91, 179, 248, 60, 213, 61, 190, 227, 128, 123, 188, 81, 77, 209>>)
        @@ (<<SHA256, <<0, 0, 97>>, <<37, 74, 111>>, 1, 2>> :> <<65, 67, 141,
            79, 60, 109, 184, 43, 51, 244, 72, 246, 157, 116, 241, 179, 73,
            141, 242, 75, 9, 4, 139, 244, 115, 26, 204, 127, 8, 246, 174,
            206>>)
        @@ (<<SHA256, <<0, 0, 97>>, <<0, 0, 0, 0, 0, 0, 0, 0, 0, 0, 0, 0, 0,
            0, 0, 0>>, 1, 2>> :> <<168, 58, 233, 167, 219, 184, 34, 232, 42,
            236, 69, 140, 111, 208, 55, 192, 143, 25, 189, 45, 38, 96, 131,
            118, 74, 16, 94, 255, 190, 77, 235, 255>>)
        @@ (<<SHA256, <<0, 0, 97>>, <<37, 74, 111, 148, 185, 222, 3, 40, 77,
            114, 151, 188, 225, 6, 43, 80>>, 1, 2>> :> <<94, 69, 132, 241,
            153, 123, 244, 116, 16, 222, 22, 73, 173, 69, 126, 81, 208, 12,
            28, 51, 134, 34, 184, 96, 6, 233, 77, 214, 87, 230, 66, 216>>)
        @@ (<<SHA256, <<0, 97, 97>>, <<>>, 1, 2>> :> <<202, 155, 101, 13, 65,
            34, 60, 12, 231, 141, 182, 139, 166, 21, 178, 106, 137, 185, 77,
            103, 152, 94, 240, 221, 109, 147, 187, 255, 175, 80, 205, 95>>)
        @@ (<<SHA256, <<0, 97, 97>>, <<0>>, 1, 2>> :> <<211, 49, 2, 133, 148,
            207, 83, 151, 47, 242, 55, 121, 154, 211, 221, 171, 148, 112, 91,
            105, 129, 196, 102, 43, 235, 234, 81, 15, 179, 148, 147, 254>>)
        @@ (<<SHA256, <<0, 97, 97>>, <<0, 0, 0>>, 1, 2>> :> <<38, 135, 106,
            207, 247, 171, 231, 230, 173, 188, 115, 13, 97, 192, 19, 32, 165,
            190, 138, 109, 141, 70, 44, 60, 57, 93, 160, 111, 78, 115, 115,
            66>>)
        @@ (<<SHA256, <<0, 97, 97>>, <<37, 74, 111>>, 1, 2>> :> <<222, 160,
            225, 138, 16, 228, 83, 141, 216, 214, 48, 154, 251, 217, 128, 33,
            155, 56, 28, 140, 169, 186, 185, 126, 221, 201, 17, 177, 114, 99,
            84, 217>>)
        @@ (<<SHA256, <<0, 97, 97>>, <<0, 0, 0, 0, 0, 0, 0, 0, 0, 0, 0, 0, 0,
            0, 0, 0>>, 1, 2>> :> <<226, 241, 52, 72, 202, 212, 110, 95, 60,
            228, 114, 185, 110, 233, 45, 33, 233, 139, 69, 22, 176, 225, 2,
            34, 136, 202, 91, 19, 114, 79, 15, 240>>)
        @@ (<<SHA256, <<0, 97, 97>>, <<37, 74, 111, 148, 185, 222, 3, 40, 77,
            114, 151, 188, 225, 6, 43, 80>>, 1, 2>> :> <<39, 5, 57, 32, 36,
            155, 206, 108, 23, 90, 84, 138, 164, 138, 204, 109, 82, 13, 132,
            74, 72, 69, 43, 132, 188, 96, 236, 17, 91, 18, 180, 234>>)
        @@ (<<SHA256, <<97, 0, 97>>, <<>>, 1, 2>> :> <<174, 201, 201, 243,
            124, 252, 219, 170, 226, 22, 10, 74, 200, 181, 165, 119, 27, 57,
            216, 30, 249, 205, 194, 181, 53, 66, 129, 247, 176, 101, 135,
            175>>)
        @@ (<<SHA256, <<97, 0, 97>>, <<0>>, 1, 2>> :> <<10, 234, 14, 121, 66,
            155, 56, 195, 84, 236, 67, 106, 238, 201, 218, 140, 129, 47, 184,
            187, 75, 254, 130, 78, 60, 244, 233, 238, 90, 191, 54, 209>>)
        @@ (<<SHA256, <<97, 0, 97>>, <<0, 0, 0>>, 1, 2>> :> <<190, 55, 144, 9,
            201, 62, 27, 144, 155, 213, 38, 234, 158, 223, 109, 150, 204, 215,
            251, 87, 81, 173, 13, 99, 203, 19, 40, 193, 155, 68, 199, 2>>)
        @@ (<<SHA256, <<97, 0, 97>>, <<37, 74, 111>>, 1, 2>> :> <<235, 29,
            203, 228, 53, 21, 124, 186, 47, 54, 39, 71, 231, 77, 121, 137,
            148, 186, 163, 255, 246, 179, 96, 200, 16, 63, 166, 45, 50, 74,
            148, 48>>)
        @@ (<<SHA256, <<97, 0, 97>>, <<0, 0, 0, 0, 0, 0, 0, 0, 0, 0, 0, 0, 0,
            0, 0, 0>>, 1, 2>> :> <<202, 33, 28, 180, 130, 141, 167, 9, 149,
            84, 111, 95, 91, 233, 226, 167, 34, 51, 109, 11, 199, 36, 97, 102,
            55, 69, 50, 218, 73, 99, 219, 34>>)
        @@ (<<SHA256, <<97, 0, 97>>, <<37, 74, 111, 148, 185, 222, 3, 40, 77,
            114, 151, 188, 225, 6, 43, 80>>, 1, 2>> :> <<62, 73, 26, 73, 182,
            36, 89, 213, 96, 244, 52, 62, 253, 62, 107, 61, 136, 178, 62, 210,
            48, 188, 41, 102, 129, 29, 226, 92, 7, 18, 217, 185>>)
        @@ (<<SHA256, <<97, 97, 97>>, <<>>, 1, 2>> :> <<155, 43, 105, 11, 92,
            139, 97, 93, 229, 66, 141, 112, 218, 221, 23, 135, 243, 107, 175,
            5, 230, 129, 100, 106, 98, 158, 68, 117, 230, 86, 11, 65>>)
        @@ (<<SHA256, <<97, 97, 97>>, <<0>>, 1, 2>> :> <<229, 182, 183, 17,
            106, 250, 43, 244, 154, 168, 54, 226, 156, 99, 189, 118, 204, 153,
            193, 98, 230, 224, 180, 54, 60, 126, 93, 145, 248, 127, 5, 210>>)
        @@ (<<SHA256, <<97, 97, 97>>, <<0, 0, 0>>, 1, 2>> :> <<171, 207, 157,
            235, 68, 252, 12, 224, 169, 42, 142, 115, 58, 185, 157, 217, 8,
            151, 192, 103, 16, 247, 220, 148, 19, 34, 92, 10, 200, 231, 251,
            128>>)
        @@ (<<SHA256, <<97, 97, 97>>, <<37, 74, 111>>, 1, 2>> :> <<108, 183,
            126, 245, 187, 205, 235, 137, 63, 111, 41, 141, 14, 146, 212, 43,
            12, 12, 216, 153, 182, 83, 72, 201, 125, 221, 88, 75, 239, 39,
            252, 97>>)
        @@ (<<SHA256, <<97, 97, 97>>, <<0, 0, 0, 0, 0, 0, 0, 0, 0, 0, 0, 0, 0,
            0, 0, 0>>, 1, 2>> :> <<163, 188, 116, 126, 248, 46, 226, 206, 174,
            31, 62, 251, 156, 47, 47, 86, 32, 149, 197, 223, 122, 166, 154,
            213, 199, 177, 72, 143, 139, 169, 245, 154>>)
        @@ (<<SHA256, <<97, 97, 97>>, <<37, 74, 111, 148, 185, 222, 3, 40, 77,
            114, 151, 188, 225, 6, 43, 80>>, 1, 2>> :> <<124, 109, 176, 88,
            87, 208, 127, 5, 129, 244, 45, 134, 172, 211, 58, 65, 67, 202,
            154, 82, 161, 193, 26, 232, 173, 155, 57, 244, 217, 190, 54,
            188>>)
        @@ (<<SHA256, <<99, 83, 97, 196, 139, 185, 234, 177, 65, 152, 231,
            110, 168, 171, 127, 26, 65, 104, 93, 106, 214, 42, 169, 20, 109,
            48, 29, 79, 23, 235, 10, 224>>, <<>>, 1, 2>> :> <<163, 209, 199,
            80, 122, 122, 105, 95, 235, 230, 177, 70, 232, 174, 44, 78, 155,
            41, 20, 41, 157, 242, 30, 12, 126, 134, 141, 17, 232, 162, 75,
            166>>)
        @@ (<<SHA256, <<99, 83, 97, 196, 139, 185, 234, 177, 65, 152, 231,
            110, 168, 171, 127, 26, 65, 104, 93, 106, 214, 42, 169, 20, 109,
            48, 29, 79, 23, 235, 10, 224>>, <<0>>, 1, 2>> :> <<61, 198, 249,
            174, 121, 45, 196, 16, 53, 168, 34, 239, 180, 216, 105, 149, 57,
            114, 189, 188, 222, 171, 146, 64, 63, 159, 202, 29, 137, 93, 190,
            72>>)
        @@ (<<SHA256, <<99, 83, 97, 196, 139, 185, 234, 177, 65, 152, 231,
            110, 168, 171, 127, 26, 65, 104, 93, 106, 214, 42, 169, 20, 109,
            48, 29, 79, 23, 235, 10, 224>>, <<0, 0, 0>>, 1, 2>> :> <<54, 26,
            242, 145, 154, 88, 9, 189, 228, 157, 130, 241, 30, 175, 52, 236,
            187, 54, 156, 203, 255, 4, 200, 140, 170, 61, 95, 204, 89, 174,
            97, 181>>)
        @@ (<<SHA256, <<99, 83, 97, 196, 139, 185, 234, 177, 65, 152, 231,
            110, 168, 171, 127, 26, 65, 104, 93, 106, 214, 42, 169, 20, 109,
            48, 29, 79, 23, 235, 10, 224>>, <<37, 74, 111>>, 1, 2>> :> <<184,
            118, 204, 221, 165, 97, 141, 158, 239, 0, 230, 229, 35, 30, 213,
            101, 76, 14, 8, 0, 14, 252, 243, 44, 59, 47, 25, 221, 103, 233,
            103, 118>>)
        @@ (<<SHA256, <<99, 83, 97, 196, 139, 185, 234, 177, 65, 152, 231,
            110, 168, 171, 127, 26, 65, 104, 93, 106, 214, 42, 169, 20, 109,
            48, 29, 79, 23, 235, 10, 224>>, <<0, 0, 0, 0, 0, 0, 0, 0, 0, 0, 0,
            0, 0, 0, 0, 0>>, 1, 2>> :> <<218, 149, 36, 238, 207, 195, 108,
            209, 58, 27, 60, 24, 247, 90, 56, 31, 35, 23, 64, 234, 222, 145,
            153, 252, 32, 212, 56, 113, 91, 63, 243, 21>>)
        @@ (<<SHA256, <<99, 83, 97, 196, 139, 185, 234, 177, 65, 152, 231,
            110, 168, 171, 127, 26, 65, 104, 93, 106, 214, 42, 169, 20, 109,
            48, 29, 79, 23, 235, 10, 224>>, <<37, 74, 111, 148, 185, 222, 3,
            40, 77, 114, 151, 188, 225, 6, 43, 80>>, 1, 2>> :> <<239, 104, 88,
            97, 19, 238, 187, 41, 95, 72, 195, 196, 205, 116, 158, 178, 245,
            113, 208, 42, 212, 74, 95, 195, 72, 177, 221, 154, 7, 178, 241,
            123>>)
    )
    \* sha256.New, 2 rounds, block 1
    @@ (
           (<<SHA256, <<>>, <<>>, 2, 1>> :> <<151, 57, 132, 17, 214, 174, 164,
            58, 119, 172, 239, 146, 34, 106, 184, 39, 141, 77, 176, 102, 139,
            209, 215, 167, 106, 114, 95, 118, 128, 172, 69, 197>>)
        @@ (<<SHA256, <<>>, <<0>>, 2, 1>> :> <<53, 113, 26, 69, 84, 155, 194,
            144, 155, 103, 119, 10, 111, 89, 236, 175, 225, 181, 34, 238, 204,
            14, 53, 17, 16, 156, 80, 24, 190, 20, 235, 209>>)
        @@ (<<SHA256, <<>>, <<0, 0, 0>>, 2, 1>> :> <<229, 209, 186, 156, 90,
            71, 127, 71, 65, 108, 227, 60, 182, 132, 19, 211, 102, 205, 35,
            95, 131, 13, 153, 238, 113, 152, 119, 10, 70, 152, 158, 163>>)
        @@ (<<SHA256, <<>>, <<37, 74, 111>>, 2, 1>> :> <<166, 45, 1, 246, 10,
            26, 81, 123, 178, 246, 205, 171, 126, 20, 104, 229, 251, 138, 123,
            141, 70, 19, 255, 131, 107, 31, 28, 199, 53, 212, 70, 59>>)
        @@ (<<SHA256, <<>>, <<0, 0, 0, 0, 0, 0, 0, 0, 0, 0, 0, 0, 0, 0, 0,
            0>>, 2, 1>> :> <<43, 254, 41, 236, 144, 8, 239, 131, 81, 79, 14,
            61, 175, 136, 77, 144, 21, 190, 116, 114, 246, 235, 28, 93, 250,
            233, 238, 99, 54, 202, 60, 187>>)
        @@ (<<SHA256, <<>>, <<37, 74, 111, 148, 185, 222, 3, 40, 77, 114, 151,
            188, 225, 6, 43, 80>>, 2, 1>> :> <<134, 44, 78, 120, 56, 89, 97,
            102, 124, 67, 193, 15, 4, 68, 85, 20, 121, 210, 218, 183, 84, 18,
            148, 96, 81, 201, 138, 251, 236, 35, 47, 138>>)
        @@ (<<SHA256, <<97>>, <<>>, 2, 1>> :> <<113, 173, 103, 229, 33, 132,
            244, 77, 42, 97, 101, 99, 68, 12, 182, 248, 121, 108, 163, 135,
            97, 33, 133, 207, 210, 144, 65, 49, 64, 160, 168, 227>>)
        @@ (<<SHA256, <<97>>, <<0>>, 2, 1>> :> <<166, 161, 84, 148, 214, 115,
            14, 92, 150, 236, 236, 222, 133, 247, 35, 145, 45, 186, 8, 92, 18,
            77, 106, 20, 63, 114, 25, 244, 174, 114, 183, 81>>)
        @@ (<<SHA256, <<97>>, <<0, 0, 0>>, 2, 1>> :> <<124, 179, 166, 86, 193,
            35, 34, 13, 51, 162, 88, 110, 53, 116, 69, 43, 155, 129, 6, 44,
            248, 232, 145, 128, 255, 158, 97, 80, 228, 81, 27, 171>>)
        @@ (<<SHA256, <<97>>, <<37, 74, 111>>, 2, 1>> :> <<210, 107, 242, 236,
            28, 230, 134, 120, 174, 38, 147, 165, 176, 215, 184, 248, 215, 13,
            54, 250, 163, 222, 55, 77, 68, 62, 0, 88, 44, 229, 74, 57>>)
        @@ (<<SHA256, <<97>>, <<0, 0, 0, 0, 0, 0, 0, 0, 0, 0, 0, 0, 0, 0, 0,
            0>>, 2, 1>> :> <<80, 57, 58, 133, 208, 119, 37, 230, 163, 173, 28,
            149, 222, 181, 45, 166, 7, 159, 8, 169, 33, 248, 95, 160, 53, 48,
            201, 123, 181, 130, 187, 245>>)
        @@ (<<SHA256, <<97>>, <<37, 74, 111, 148, 185, 222, 3, 40, 77, 114,
            151, 188, 225, 6, 43, 80>>, 2, 1>> :> <<248, 110, 176, 210, 34, 9,
            86, 238, 173, 14, 28, 135, 15, 228, 210, 181, 133, 1, 157, 221,
            205, 35, 70, 173, 82, 30, 159, 43, 195, 138, 195, 236>>)
        @@ (<<SHA256, <<0, 97>>, <<>>, 2, 1>> :> <<238, 122, 148, 210, 239,
            13, 79, 235, 84, 109, 247, 228, 74, 204, 28, 135, 219, 4, 94, 250,
            62, 149, 80, 238, 3, 173, 145, 109, 14, 174, 192, 62>>)
        @@ (<<SHA256, <<0, 97>>, <<0>>, 2, 1>> :> <<20, 202, 252, 10, 105,
            188, 104, 61, 187, 247, 216, 112, 122, 92, 190, 180, 193, 116,
            149, 202, 209, 53, 0, 72, 112, 188, 138, 64, 48, 87, 220, 42>>)
        @@ (<<SHA256, <<0, 97>>, <<0, 0, 0>>, 2, 1>> :> <<77, 234, 167, 196,
            241, 190, 21, 81, 229, 192, 130, 138, 106, 204, 33, 156, 4, 96,
            144, 26, 120, 183, 172, 151, 174, 135, 61, 19, 209, 253, 180,
            46>>)
        @@ (<<SHA256, <<0, 97>>, <<37, 74, 111>>, 2, 1>> :> <<103, 24, 67,
            159, 247, 88, 225, 101, 252, 162, 154, 222, 90, 143, 132, 187, 75,
            209, 82, 101, 175, 243, 224, 116, 243, 78, 230, 221, 48, 143, 174,
            236>>)
        @@ (<<SHA256, <<0, 97>>, <<0, 0, 0, 0, 0, 0, 0, 0, 0, 0, 0, 0, 0, 0,
            0, 0>>, 2, 1>> :> <<116, 140, 72, 214, 109, 139, 40, 138, 85, 173,
            182, 220, 40, 79, 75, 81, 6, 33, 186, 158, 10, 90, 0, 32, 76, 187,
            28, 17, 178, 196, 86, 5>>)
        @@ (<<SHA256, <<0, 97>>, <<37, 74, 111, 148, 185, 222, 3, 40, 77, 114,
            151, 188, 225, 6, 43, 80>>, 2, 1>> :> <<255, 119, 62, 94, 240, 4,
            116, 88, 111, 132, 230, 226, 66, 69, 49, 107, 241, 105, 12, 209,
            67, 171, 20, 250, 116, 197, 19, 132, 1, 151, 230, 245>>)
        @@ (<<SHA256, <<97, 97>>, <<>>, 2, 1>> :> <<245, 148, 29, 146, 16, 20,
            207, 226, 200, 111, 180, 117, 211, 24, 81, 239, 156, 128, 197,
            104, 20, 117, 220, 81, 170, 197, 214, 223, 239, 242, 88, 191>>)
        @@ (<<SHA256, <<97, 97>>, <<0>>, 2, 1>> :> <<244, 211, 172, 92, 112,
            172, 201, 0, 69, 179, 149, 240, 64, 155, 191, 232, 112, 154, 1,
            151, 156, 100, 254, 235, 10, 15, 67, 95, 122, 144, 239, 154>>)
        @@ (<<SHA256, <<97, 97>>, <<0, 0, 0>>, 2, 1>> :> <<204, 146, 165, 71,
            248, 125, 9, 182, 67, 85, 157, 105, 23, 216, 218, 178, 98, 92, 97,
            23, 50, 128, 16, 191, 27, 46, 126, 3, 243, 157, 147, 249>>)
        @@ (<<SHA256, <<97, 97>>, <<37, 74, 111>>, 2, 1>> :> <<50, 114, 1,
            197, 158, 148, 46, 85, 239, 253, 185, 220, 118, 63, 70, 212, 13,
            204, 77, 229, 196, 19, 108, 50, 162, 253, 45, 161, 34, 95, 102,
            247>>)
        @@ (<<SHA256, <<97, 97>>, <<0, 0, 0, 0, 0, 0, 0, 0, 0, 0, 0, 0, 0, 0,
            0, 0>>, 2, 1>> :> <<129, 139, 206, 35, 254, 56, 241, 39, 133, 145,
            175, 164, 184, 137, 171, 151, 41, 131, 160, 121, 54, 84, 212, 241,
            238, 63, 155, 113, 189, 165, 234, 193>>)
        @@ (<<SHA256, <<97, 97>>, <<37, 74, 111, 148, 185, 222, 3, 40, 77,
            114, 151, 188, 225, 6, 43, 80>>, 2, 1>> :> <<168, 69, 168, 170,
            115, 166, 146, 67, 101, 60, 112, 95, 230, 7, 46, 75, 17, 189, 231,
            116, 178, 74, 215, 13, 70, 140, 231, 151, 4, 209, 169, 250>>)
        @@ (<<SHA256, <<0, 0, 97>>, <<>>, 2, 1>> :> <<75, 210, 96, 17, 135,
            16, 234, 248, 77, 79, 66, 64, 22, 128, 119, 97, 51, 193, 86, 6,
            157, 118, 220, 134, 217, 218, 237, 116, 216, 128, 58, 57>>)
        @@ (<<SHA256, <<0, 0, 97>>, <<0>>, 2, 1>> :> <<162, 29, 94, 33, 65,
            32, 64, 35, 53, 221, 57, 251, 210, 246, 170, 85, 109, 241, 110,
            37, 135, 207, 254, 189, 50, 159, 137, 41, 133, 201, 31, 94>>)
        @@ (<<SHA256, <<0, 0, 97>>, <<0, 0, 0>>, 2, 1>> :> <<18, 74, 65, 49,
            133, 119, 121, 8, 28, 214, 144, 171, 152, 69, 119, 168, 38, 244,
            190, 250, 81, 254, 99, 133, 192, 130, 70, 36, 189, 182, 24, 228>>)
        @@ (<<SHA256, <<0, 0, 97>>, <<37, 74, 111>>, 2, 1>> :> <<30, 77, 200,
            62, 101, 86, 151, 82, 250, 236, 73, 154, 86, 214, 16, 55, 68, 11,
            24, 55, 233, 67, 219, 61, 237, 87, 115, 238, 46, 83, 65, 42>>)
        @@ (<<SHA256, <<0, 0, 97>>, <<0, 0, 0, 0, 0, 0, 0, 0, 0, 0, 0, 0, 0,
            0, 0, 0>>, 2, 1>> :> <<46, 157, 148, 252, 138, 135, 119, 238, 26,
            233, 11, 152, 180, 24, 93, 221, 169, 210, 240, 121, 136, 89, 188,
            171, 111, 69, 243, 121, 30, 26, 57, 90>>)
        @@ (<<SHA256, <<0, 0, 97>>, <<37, 74, 111, 148, 185, 222, 3, 40, 77,
            114, 151, 188, 225, 6, 43, 80>>, 2, 1>> :> <<176, 99, 24, 162,
            211, 121, 251, 122, 22, 171, 93, 140, 173, 198, 61, 135, 153, 254,
            193, 227, 57, 145, 191, 139, 137, 164, 235, 231, 125, 47, 103,
            48>>)
        @@ (<<SHA256, <<0, 97, 97>>, <<>>, 2, 1>> :> <<9, 151, 220, 137, 205,
            120, 171, 28, 238, 222, 60, 161, 157, 134, 109, 19, 173, 22, 76,
            176, 49, 69, 224, 190, 212, 9, 64, 185, 217, 42, 84, 49>>)
        @@ (<<SHA256, <<0, 97, 97>>, <<0>>, 2, 1>> :> <<185, 97, 95, 180, 71,
            10, 216, 253, 26, 0, 103, 73, 176, 203, 243, 149, 224, 225, 231,
            241, 103, 221, 143, 200, 92, 150, 167, 75, 95, 122, 159, 59>>)
        @@ (<<SHA256, <<0, 97, 97>>, <<0, 0, 0>>, 2, 1>> :> <<50, 212, 233,
            114, 180, 26, 153, 0, 101, 90, 164, 122, 232, 232, 222, 141, 80,
            52, 133, 213, 139, 127, 216, 144, 133, 145, 19, 253, 158, 114, 54,
            20>>)
        @@ (<<SHA256, <<0, 97, 97>>, <<37, 74, 111>>, 2, 1>> :> <<207, 59, 84,
            231, 239, 58, 166, 1, 44, 98, 127, 73, 136, 46, 127, 146, 225, 9,
            246, 71, 160, 169, 31, 189, 16, 26, 138, 113, 41, 15, 26, 255>>)
        @@ (<<SHA256, <<0, 97, 97>>, <<0, 0, 0, 0, 0, 0, 0, 0, 0, 0, 0, 0, 0,
            0, 0, 0>>, 2, 1>> :> <<63, 182, 167, 133, 89, 163, 254, 132, 71,
            140, 234, 206, 104, 49, 2, 61, 205, 60, 212, 212, 159, 124, 243,
            77, 244, 142, 100, 97, 110, 190, 87, 11>>)
        @@ (<<SHA256, <<0, 97, 97>>, <<37, 74, 111, 148, 185, 222, 3, 40, 77,
            114, 151, 188, 225, 6, 43, 80>>, 2, 1>> :> <<234, 248, 60, 73, 88,
            25, 6, 70, 244, 206, 202, 71, 138, 52, 150, 37, 102, 151, 75, 22,
            178, 235, 101, 12, 159, 48, 151, 145, 184, 229, 124, 191>>)
        @@ (<<SHA256, <<97, 0, 97>>, <<>>, 2, 1>> :> <<164, 225, 181, 167, 77,
            86, 184, 251, 78, 53, 195, 77, 213, 247, 203, 183, 136, 75, 203,
            249, 52, 159, 221, 111, 197, 36, 243, 145, 235, 233, 99, 85>>)
        @@ (<<SHA256, <<97, 0, 97>>, <<0>>, 2, 1>> :> <<22, 247, 136, 253, 0,
            107, 145, 32, 217, 189, 116, 221, 135, 177, 110, 32, 94, 151, 211,
            18, 62, 48, 59, 187, 201, 124, 74, 118, 89, 138, 177, 152>>)
        @@ (<<SHA256, <<97, 0, 97>>, <<0, 0, 0>>, 2, 1>> :> <<12, 167, 185,
            86, 80, 172, 66, 152, 87, 74, 143, 50, 182, 141, 30, 52, 74, 137,
            118, 87, 172, 2, 152, 183, 28, 35, 45, 189, 190, 81, 209, 238>>)
        @@ (<<SHA256, <<97, 0, 97>>, <<37, 74, 111>>, 2, 1>> :> <<255, 49,
            243, 162, 53, 121, 55, 211, 57, 204, 117, 117, 100, 197, 151, 28,
            159, 75, 104, 147, 5, 102, 136, 95, 153, 144, 91, 147, 4, 98, 123,
            45>>)
        @@ (<<SHA256, <<97, 0, 97>>, <<0, 0, 0, 0, 0, 0, 0, 0, 0, 0, 0, 0, 0,
            0, 0, 0>>, 2, 1>> :> <<209, 139, 221, 0, 180, 3, 218, 152, 87, 94,
            11, 105, 249, 255, 80, 247, 193, 171, 98, 122, 6, 89, 19, 59, 94,
            215, 118, 43, 117, 42, 189, 18>>)
        @@ (<<SHA256, <<97, 0, 97>>, <<37, 74, 111, 148, 185, 222, 3, 40, 77,
            114, 151, 188, 225, 6, 43, 80>>, 2, 1>> :> <<181, 183, 249, 86,
            252, 16, 4, 232, 20, 204, 66, 204, 225, 202, 245, 162, 55, 112,
            209, 241, 19, 14, 160, 58, 65, 192, 95, 189, 26, 176, 17, 198>>)
        @@ (<<SHA256, <<97, 97, 97>>, <<>>, 2, 1>> :> <<7, 40, 3, 121, 241,
            44, 12, 45, 124, 209, 14, 39, 33, 45, 255, 67, 181, 46, 21, 13,
            157, 101, 0, 70, 221, 153, 211, 84, 221, 79, 179, 210>>)
        @@ (<<SHA256, <<97, 97, 97>>, <<0>>, 2, 1>> :> <<240, 213, 14, 106,
            245, 2, 108, 101, 189, 202, 188, 115, 255, 59, 227, 122, 231, 179,
            56, 205, 254, 228, 118, 169, 184, 64, 88, 131, 186, 34, 162, 59>>)
        @@ (<<SHA256, <<97, 97, 97>>, <<0, 0, 0>>, 2, 1>> :> <<23, 251, 190,
            175, 172, 230, 206, 157, 230, 5, 115, 179, 200, 29, 91, 234, 236,
            108, 45, 68, 123, 37, 57, 29, 209, 229, 106, 234, 237, 94, 155,
            76>>)
        @@ (<<SHA256, <<97, 97, 97>>, <<37, 74, 111>>, 2, 1>> :> <<186, 9, 37,
            20, 63, 93, 247, 8, 222, 80, 196, 161, 215, 118, 176, 35, 162,
            166, 44, 108, 168, 238, 91, 9, 158, 190, 210, 234, 41, 166, 163,
            171>>)
        @@ (<<SHA256, <<97, 97, 97>>, <<0, 0, 0, 0, 0, 0, 0, 0, 0, 0, 0, 0, 0,
            0, 0, 0>>, 2, 1>> :> <<105, 131, 173, 228, 247, 118, 236, 176,
            155, 102, 127, 196, 213, 70, 228, 188, 232, 212, 50, 1, 207, 197,
            180, 238, 216, 158, 224, 82, 97, 139, 228, 97>>)
        @@ (<<SHA256, <<97, 97, 97>>, <<37, 74, 111, 148, 185, 222, 3, 40, 77,
            114, 151, 188, 225, 6, 43, 80>>, 2, 1>> :> <<87, 10, 206, 89, 199,
            123, 24, 113, 97, 89, 186, 214, 51, 224, 58, 174, 109, 139, 246,
            20, 3, 185, 127, 65, 20, 98, 2, 80, 230, 54, 44, 157>>)
        @@ (<<SHA256, <<99, 83, 97, 196, 139, 185, 234, 177, 65, 152, 231,
            110, 168, 171, 127, 26, 65, 104, 93, 106, 214, 42, 169, 20, 109,
            48, 29, 79, 23, 235, 10, 224>>, <<>>, 2, 1>> :> <<41, 48, 44, 230,
            74, 106, 158, 156, 171, 115, 84, 192, 156, 82, 187, 213, 239, 132,
            221, 24, 231, 161, 240, 178, 40, 152, 208, 91, 95, 56, 139, 88>>)
        @@ (<<SHA256, <<99, 83, 97, 196, 139, 185, 234, 177, 65, 152, 231,
            110, 168, 171, 127, 26, 65, 104, 93, 106, 214, 42, 169, 20, 109,
            48, 29, 79, 23, 235, 10, 224>>, <<0>>, 2, 1>> :> <<171, 82, 101,
            204, 234, 66, 127, 207, 142, 23, 59, 234, 129, 73, 119, 251, 254,
            29, 165, 13, 106, 109, 227, 228, 101, 172, 68, 169, 95, 140, 206,
            39>>)
        @@ (<<SHA256, <<99, 83, 97, 196, 139, 185, 234, 177, 65, 152, 231,
            110, 168, 171, 127, 26, 65, 104, 93, 106, 214, 42, 169, 20, 109,
            48, 29, 79, 23, 235, 10, 224>>, <<0, 0, 0>>, 2, 1>> :> <<59, 186,
            31, 0, 44, 227, 117, 90, 92, 221, 92, 102, 240, 149, 113, 166, 96,
            46, 255, 23, 201, 164, 21, 87, 233, 147, 59, 113, 12, 7, 187,
            117>>)
        @@ (<<SHA256, <<99, 83, 97, 196, 139, 185, 234, 177, 65, 152, 231,
            110, 168, 171, 127, 26, 65, 104, 93, 106, 214, 42, 169, 20, 109,
            48, 29, 79, 23, 235, 10, 224>>, <<37, 74, 111>>, 2, 1>> :> <<131,
            148, 235, 177, 41, 47, 96, 16, 71, 17, 118, 3, 191, 18, 83, 92,
            92, 33, 72, 35, 79, 62, 62, 213, 0, 206, 204, 4, 227, 60, 87,
            85>>)
        @@ (<<SHA256, <<99, 83, 97, 196, 139, 185, 234, 177, 65, 152, 231,
            110, 168, 171, 127, 26, 65, 104, 93, 106, 214, 42, 169, 20, 109,
            48, 29, 79, 23, 235, 10, 224>>, <<0, 0, 0, 0, 0, 0, 0, 0, 0, 0, 0,
            0, 0, 0, 0, 0>>, 2, 1>> :> <<1, 157, 99, 176, 215, 250, 181, 249,
            21, 199, 49, 35, 173, 238, 92, 20, 82, 180, 175, 225, 16, 27, 109,
            126, 107, 61, 198, 22, 232, 6, 20, 117>>)
        @@ (<<SHA256, <<99, 83, 97, 196, 139, 185, 234, 177, 65, 152, 231,
            110, 168, 171, 127, 26, 65, 104, 93, 106, 214, 42, 169, 20, 109,
            48, 29, 79, 23, 235, 10, 224>>, <<37, 74, 111, 148, 185, 222, 3,
            40, 77, 114, 151, 188, 225, 6, 43, 80>>, 2, 1>> :> <<40, 20, 105,
            87, 142, 79, 110, 62, 47, 183, 68, 20, 41, 82, 34, 154, 59, 124,
            190, 137, 244, 30, 128, 235, 162, 2, 162, 103, 167, 113, 55,
            190>>)
    )
    \* sha256.New, 2 rounds, block 2
    @@ (
           (<<SHA256, <<>>, <<>>, 2, 2>> :> <<4, 215, 21, 225, 61, 60, 49,
            166, 193, 83, 155, 151, 19, 234, 105, 22, 218, 114, 2, 126, 27,
            47, 55, 150, 47, 139, 240, 48, 106, 226, 88, 64>>)
        @@ (<<SHA256, <<>>, <<0>>, 2, 2>> :> <<89, 243, 158, 186, 71, 142,
            221, 7, 253, 95, 156, 245, 179, 246, 75, 137, 77, 120, 25, 67, 45,
            223, 98, 137, 61, 103, 49, 44, 13, 127, 95, 114>>)
        @@ (<<SHA256, <<>>, <<0, 0, 0>>, 2, 2>> :> <<28, 185, 210, 104, 171,
            227, 196, 172, 184, 14, 203, 106, 161, 50, 1, 175, 175, 218, 22,
            176, 100, 192, 64, 23, 164, 96, 11, 204, 119, 226, 11, 155>>)
        @@ (<<SHA256, <<>>, <<37, 74, 111>>, 2, 2>> :> <<231, 120, 123, 181,
            147, 41, 114, 54, 118, 75, 196, 109, 137, 112, 202, 94, 104, 116,
            67, 41, 25, 30, 12, 131, 172, 63, 211, 112, 130, 52, 79, 238>>)
        @@ (<<SHA256, <<>>, <<0, 0, 0, 0, 0, 0, 0, 0, 0, 0, 0, 0, 0, 0, 0,
            0>>, 2, 2>> :> <<86, 118, 31, 5, 167, 89, 19, 100, 62, 10, 152,
            30, 165, 178, 224, 206, 195, 4, 186, 79, 155, 119, 183, 29, 153,
            138, 249, 166, 198, 214, 58, 202>>)
        @@ (<<SHA256, <<>>, <<37, 74, 111, 148, 185, 222, 3, 40, 77, 114, 151,
            188, 225, 6, 43, 80>>, 2, 2>> :> <<14, 82, 72, 243, 13, 17, 84,
            250, 138, 36, 81, 252, 2, 255, 144, 115, 148, 60, 202, 231, 195,
            157, 223, 0, 228, 119, 234, 93, 210, 109, 6, 35>>)
        @@ (<<SHA256, <<97>>, <<>>, 2, 2>> :> <<181, 44, 2, 75, 220, 89, 255,
            197, 104, 25, 251, 178, 35, 78, 224, 141, 169, 35, 74, 94, 221,
            254, 144, 135, 242, 58, 108, 41, 218, 144, 175, 246>>)
        @@ (<<SHA256, <<97>>, <<0>>, 2, 2>> :> <<24, 177, 146, 237, 228, 1,
            116, 57, 179, 77, 112, 47, 59, 34, 127, 192, 75, 4, 138, 215, 76,
            104, 100, 32, 157, 17, 202, 208, 15, 129, 124, 207>>)
        @@ (<<SHA256, <<97>>, <<0, 0, 0>>, 2, 2>> :> <<107, 59, 106, 70, 26,
            162, 120, 122, 188, 20, 162, 109, 55, 2, 167, 38, 98, 213, 16, 3,
            244, 230, 160, 111, 221, 96, 103, 115, 243, 191, 86, 103>>)
        @@ (<<SHA256, <<97>>, <<37, 74, 111>>, 2, 2>> :> <<147, 207, 226, 46,
            192, 7, 218, 5, 52, 57, 48, 5, 151, 130, 29, 154, 96, 51, 252,
            224, 231, 27, 216, 128, 176, 103, 124, 76, 32, 109, 102, 88>>)
        @@ (<<SHA256, <<97>>, <<0, 0, 0, 0, 0, 0, 0, 0, 0, 0, 0, 0, 0, 0, 0,
            0>>, 2, 2>> :> <<245, 227, 8, 61, 194, 83, 253, 149, 108, 34, 14,
            167, 202, 186, 44, 159, 37, 191, 187, 79, 118, 112, 54, 89, 173,
            71, 199, 183, 254, 71, 168, 184>>)
        @@ (<<SHA256, <<97>>, <<37, 74, 111, 148, 185, 222, 3, 40, 77, 114,
            151, 188, 225, 6, 43, 80>>, 2, 2>> :> <<244, 129, 52, 98, 7, 63,
            230, 220, 210, 56, 158, 81, 212, 247, 20, 14, 250, 253, 246, 87,
            17, 38, 250, 129, 137, 238, 198, 126, 211, 205, 115, 8>>)
        @@ (<<SHA256, <<0, 97>>, <<>>, 2, 2>> :> <<142, 171, 187, 60, 9, 56,
            89, 122, 25, 84, 82, 227, 198, 215, 13, 40, 165, 194, 218, 7, 107,
            201, 177, 196, 207, 143, 125, 0, 49, 177, 66, 134>>)
        @@ (<<SHA256, <<0, 97>>, <<0>>, 2, 2>> :> <<207, 183, 95, 52, 18, 198,
            34, 127, 59, 65, 144, 103, 240, 76, 208, 71, 162, 151, 88, 81,
            155, 109, 186, 146, 59, 184, 193, 35, 207, 6, 200, 42>>)
        @@ (<<SHA256, <<0, 97>>, <<0, 0, 0>>, 2, 2>> :> <<125, 139, 142, 100,
            224, 200, 198, 119, 136, 74, 4, 44, 109, 215, 208, 240, 141, 0,
            181, 204, 14, 115, 25, 105, 79, 58, 38, 18, 235, 62, 248, 221>>)
        @@ (<<SHA256, <<0, 97>>, <<37, 74, 111>>, 2, 2>> :> <<51, 27, 220, 23,
            81, 85, 110, 217, 189, 156, 202, 132, 51, 158, 51, 52, 45, 207,
            118, 181, 130, 197, 226, 73, 168, 53, 26, 21, 194, 78, 135, 188>>)
        @@ (<<SHA256, <<0, 97>>, <<0, 0, 0, 0, 0, 0, 0, 0, 0, 0, 0, 0, 0, 0,
            0, 0>>, 2, 2>> :> <<47, 241, 199, 211, 82, 168, 24, 153, 26, 95,
            137, 87, 219, 82, 200, 130, 74, 150, 186, 138, 115, 121, 179, 240,
            61, 255, 100, 177, 154, 23, 7, 3>>)
        @@ (<<SHA256, <<0, 97>>, <<37, 74, 111, 148, 185, 222, 3, 40, 77, 114,
            151, 188, 225, 6, 43, 80>>, 2, 2>> :> <<59, 40, 46, 213, 87, 83,
            91, 85, 191, 42, 80, 231, 105, 218, 22, 30, 28, 30, 15, 78, 80,
            76, 186, 25, 212, 241, 183, 116, 155, 24, 58, 237>>)
        @@ (<<SHA256, <<97, 97>>, <<>>, 2, 2>> :> <<170, 162, 86, 79, 103,
            180, 226, 16, 22, 82, 191, 199, 46, 109, 254, 112, 163, 155, 202,
            135, 133, 76, 25, 231, 237, 170, 239, 2, 211, 51, 68, 143>>)
        @@ (<<SHA256, <<97, 97>>, <<0>>, 2, 2>> :> <<225, 137, 114, 81, 17,
            23, 224, 96, 225, 80, 7, 131, 153, 226, 124, 154, 164, 200, 76,
            232, 113, 234, 91, 100, 92, 85, 204, 122, 165, 197, 31, 111>>)
        @@ (<<SHA256, <<97, 97>>, <<0, 0, 0>>, 2, 2>> :> <<140, 131, 42, 116,
            204, 128, 155, 108, 156, 155, 107, 105, 102, 57, 129, 61, 87, 180,
            37, 91, 34, 181, 131, 189, 140, 19, 79, 146, 221, 177, 124, 81>>)
        @@ (<<SHA256, <<97, 97>>, <<37, 74, 111>>, 2, 2>> :> <<237, 141, 147,
            190, 9, 210, 15, 203, 8, 29, 164, 25, 112, 55, 231, 87, 3, 26,
            172, 203, 26, 155, 139, 169, 177, 178, 71, 139, 91, 43, 204, 47>>)
        @@ (<<SHA256, <<97, 97>>, <<0, 0, 0, 0, 0, 0, 0, 0, 0, 0, 0, 0, 0, 0,
            0, 0>>, 2, 2>> :> <<181, 92, 247, 186, 36, 137, 144, 78, 79, 126,
            5, 252, 8, 119, 146, 65, 209, 161, 147, 246, 52, 138, 188, 61, 11,
            19, 50, 191, 237, 68, 6, 189>>)
        @@ (<<SHA256, <<97, 97>>, <<37, 74, 111, 148, 185, 222, 3, 40, 77,
            114, 151, 188, 225, 6, 43, 80>>, 2, 2>> :> <<191, 223, 238, 128,
            146, 50, 136, 166, 116, 205, 8, 5, 228, 245, 148, 21, 7, 47, 147,
            252, 94, 97, 245, 162, 56, 211, 166, 118, 150, 64, 114, 195>>)
        @@ (<<SHA256, <<0, 0, 97>>, <<>>, 2, 2>> :> <<248, 106, 70, 88, 166,
            1, 72, 118, 167, 180, 236, 138, 54, 136, 127, 221, 239, 114, 240,
            229, 203, 61, 51, 155, 60, 214, 143, 162, 109, 200, 107, 163>>)
        @@ (<<SHA256, <<0, 0, 97>>, <<0>>, 2, 2>> :> <<13, 82, 152, 156, 181,
            37, 172, 124, 191, 40, 71, 211, 197, 169, 224, 52, 62, 123, 189,
            195, 240, 58, 36, 70, 246, 75, 220, 142, 1, 137, 166, 126>>)
        @@ (<<SHA256, <<0, 0, 97>>, <<0, 0, 0>>, 2, 2>> :> <<138, 95, 149, 99,
            205, 190, 216, 182, 223, 157, 34, 201, 249, 73, 76, 111, 112, 99,
            216, 231, 75, 186, 207, 61, 66, 126, 247, 12, 173, 69, 245, 224>>)
        @@ (<<SHA256, <<0, 0, 97>>, <<37, 74, 111>>, 2, 2>> :> <<80, 212, 40,
            107, 126, 18, 26, 25, 192, 76, 80, 181, 194, 75, 204, 96, 233,
            200, 106, 39, 39, 41, 34, 115, 20, 253, 180, 170, 183, 210, 112,
            104>>)
        @@ (<<SHA256, <<0, 0, 97>>, <<0, 0, 0, 0, 0, 0, 0, 0, 0, 0, 0, 0, 0,
            0, 0, 0>>, 2, 2>> :> <<244, 132, 185, 86, 40, 240, 190, 195, 113,
            249, 203, 8, 153, 166, 141, 157, 129, 230, 14, 49, 140, 64, 120,
            234, 32, 173, 92, 211, 41, 202, 131, 159>>)
        @@ (<<SHA256, <<0, 0, 97>>, <<37, 74, 111, 148, 185, 222, 3, 40, 77,
            114, 151, 188, 225, 6, 43, 80>>, 2, 2>> :> <<72, 152, 153, 138,
            187, 16, 226, 125, 224, 250, 193, 143, 235, 76, 49, 77, 168, 79,
            156, 20, 105, 159, 138, 231, 1, 4, 140, 104, 60, 123, 185, 103>>)
        @@ (<<SHA256, <<0, 97, 97>>, <<>>, 2, 2>> :> <<76, 182, 143, 55, 61,
            160, 238, 238, 153, 184, 175, 31, 97, 160, 26, 92, 22, 106, 6,
            168, 224, 235, 177, 130, 14, 220, 52, 218, 240, 81, 154, 227>>)
        @@ (<<SHA256, <<0, 97, 97>>, <<0>>, 2, 2>> :> <<187, 158, 143, 79,
            239, 190, 46, 41, 179, 75, 152, 43, 28, 57, 99, 185, 158, 172,
            106, 18, 213, 75, 170, 174, 205, 37, 247, 21, 113, 147, 172,
            236>>)
        @@ (<<SHA256, <<0, 97, 97>>, <<0, 0, 0>>, 2, 2>> :> <<116, 164, 93,
            253, 68, 91, 179, 82, 88, 147, 85, 237, 102, 88, 234, 19, 53, 91,
            235, 79, 107, 126, 179, 6, 87, 189, 126, 52, 195, 194, 94, 184>>)
        @@ (<<SHA256, <<0, 97, 97>>, <<37, 74, 111>>, 2, 2>> :> <<41, 74, 192,
            41, 107, 84, 121, 38, 59, 117, 80, 181, 62, 110, 36, 118, 133,
            214, 189, 72, 59, 128, 88, 51, 116, 14, 215, 106, 20, 168, 41,
            67>>)
        @@ (<<SHA256, <<0, 97, 97>>, <<0, 0, 0, 0, 0, 0, 0, 0, 0, 0, 0, 0, 0,
            0, 0, 0>>, 2, 2>> :> <<91, 100, 193, 222, 12, 159, 181, 146, 165,
            246, 109, 3, 12, 91, 136, 46, 164, 217, 192, 124, 200, 202, 148,
            46, 178, 220, 80, 147, 20, 70, 103, 180>>)
        @@ (<<SHA256, <<0, 97, 97>>, <<37, 74, 111, 148, 185, 222, 3, 40, 77,
            114, 151, 188, 225, 6, 43, 80>>, 2, 2>> :> <<55, 91, 232, 156, 25,
            165, 151, 134, 133, 8, 81, 159, 46, 207, 79, 95, 113, 134, 187,
            150, 26, 171, 100, 132, 47, 62, 212, 179, 215, 46, 40, 86>>)
        @@ (<<SHA256, <<97, 0, 97>>, <<>>, 2, 2>> :> <<61, 118, 68, 232, 217,
            1, 144, 231, 68, 155, 85, 221, 23, 3, 9, 123, 67, 156, 231, 244,
            251, 221, 16, 115, 179, 110, 58, 56, 234, 252, 149, 65>>)
        @@ (<<SHA256, <<97, 0, 97>>, <<0>>, 2, 2>> :> <<87, 97, 117, 204, 140,
            56, 90, 188, 81, 163, 99, 84, 229, 98, 88, 189, 167, 127, 62, 16,
            70, 141, 99, 188, 38, 190, 189, 144, 246, 16, 91, 94>>)
        @@ (<<SHA256, <<97, 0, 97>>, <<0, 0, 0>>, 2, 2>> :> <<125, 63, 127,
            166, 92, 231, 133, 153, 62, 222, 132, 6, 165, 234, 128, 130, 118,
            73, 115, 169, 15, 95, 135, 199, 230, 2, 222, 90, 140, 93, 63,
            255>>)
        @@ (<<SHA256, <<97, 0, 97>>, <<37, 74, 111>>, 2, 2>> :> <<80, 109,
            131, 230, 34, 108, 254, 157, 104, 192, 152, 197, 235, 21, 120,
            139, 48, 108, 233, 198, 251, 75, 244, 107, 21, 160, 40, 125, 212,
            33, 5, 95>>)
        @@ (<<SHA256, <<97, 0, 97>>, <<0, 0, 0, 0, 0, 0, 0, 0, 0, 0, 0, 0, 0,
            0, 0, 0>>, 2, 2>> :> <<144, 90, 179, 151, 160, 255, 152, 142, 125,
            89, 191, 114, 81, 88, 241, 62, 109, 56, 117, 196, 71, 181, 103,
            100, 116, 100, 65, 216, 156, 41, 83, 6>>)
        @@ (<<SHA256, <<97, 0, 97>>, <<37, 74, 111, 148, 185, 222, 3, 40, 77,
            114, 151, 188, 225, 6, 43, 80>>, 2, 2>> :> <<42, 150, 11, 225, 55,
            108, 16, 180, 8, 209, 46, 24, 154, 70, 249, 105, 92, 46, 8, 5,
            215, 84, 203, 12, 215, 150, 207, 203, 5, 217, 176, 167>>)
        @@ (<<SHA256, <<97, 97, 97>>, <<>>, 2, 2>> :> <<184, 21, 120, 106, 46,
            169, 20, 80, 53, 66, 98, 181, 79, 221, 132, 192, 31, 65, 230, 239,
            58, 72, 129, 179, 80, 92, 83, 231, 245, 156, 216, 69>>)
        @@ (<<SHA256, <<97, 97, 97>>, <<0>>, 2, 2>> :> <<137, 79, 117, 220,
            33, 239, 95, 255, 49, 56, 95, 24, 197, 99, 217, 246, 142, 151,
            122, 87, 228, 183, 102, 248, 221, 15, 225, 169, 252, 189, 108,
            35>>)
        @@ (<<SHA256, <<97, 97, 97>>, <<0, 0, 0>>, 2, 2>> :> <<35, 129, 66,
            219, 62, 102, 230, 180, 237, 212, 60, 63, 165, 83, 7, 122, 127, 2,
            72, 220, 101, 58, 14, 173, 187, 178, 78, 198, 215, 255, 73, 148>>)
        @@ (<<SHA256, <<97, 97, 97>>, <<37, 74, 111>>, 2, 2>> :> <<156, 106,
            206, 240, 39, 70, 39, 222, 138, 18, 218, 188, 0, 23, 219, 79, 184,
            25, 104, 5, 217, 32, 109, 175, 83, 74, 65, 248, 173, 79, 208,
            213>>)
        @@ (<<SHA256, <<97, 97, 97>>, <<0, 0, 0, 0, 0, 0, 0, 0, 0, 0, 0, 0, 0,
            0, 0, 0>>, 2, 2>> :> <<125, 150, 101, 72, 220, 148, 183, 108, 82,
            119, 187, 44, 197, 205, 188, 205, 204, 197, 172, 46, 89, 16, 110,
            226, 58, 68, 223, 186, 163, 138, 246, 167>>)
        @@ (<<SHA256, <<97, 97, 97>>, <<37, 74, 111, 148, 185, 222, 3, 40, 77,
            114, 151, 188, 225, 6, 43, 80>>, 2, 2>> :> <<205, 120, 14, 198,
            143, 230, 20, 46, 183, 84, 225, 38, 200, 101, 67, 208, 210, 112,
            38, 148, 200, 146, 49, 117, 118, 6, 11, 114, 220, 198, 120, 9>>)
        @@ (<<SHA256, <<99, 83, 97, 196, 139, 185, 234, 177, 65, 152, 231,
            110, 168, 171, 127, 26, 65, 104, 93, 106, 214, 42, 169, 20, 109,
            48, 29, 79, 23, 235, 10, 224>>, <<>>, 2, 2>> :> <<8, 99, 166, 48,
            87, 45, 213, 62, 241, 53, 155, 136, 71, 212, 95, 28, 245, 206, 94,
            221, 9, 126, 151, 111, 80, 170, 218, 184, 53, 49, 38, 13>>)
        @@ (<<SHA256, <<99, 83, 97, 196, 139, 185, 234, 177, 65, 152, 231,
            110, 168, 171, 127, 26, 65, 104, 93, 106, 214, 42, 169, 20, 109,
            48, 29, 79, 23, 235, 10, 224>>, <<0>>, 2, 2>> :> <<219, 74, 12,
            48, 1, 175, 59, 86, 136, 175, 227, 135, 141, 190, 171, 21, 81, 19,
            176, 73, 213, 168, 117, 127, 222, 26, 109, 205, 5, 55, 157, 210>>)
        @@ (<<SHA256, <<99, 83, 97, 196, 139, 185, 234, 177, 65, 152, 231,
            110, 168, 171, 127, 26, 65, 104, 93, 106, 214, 42, 169, 20, 109,
            48, 29, 79, 23, 235, 10, 224>>, <<0, 0, 0>>, 2, 2>> :> <<179, 197,
            64, 48, 140, 22, 39, 225, 174, 74, 172, 33, 2, 169, 193, 254, 197,
            31, 77, 129, 149, 92, 244, 72, 136, 231, 196, 73, 32, 52, 94,
            98>>)
        @@ (<<SHA256, <<99, 83, 97, 196, 139, 185, 234, 177, 65, 152, 231,
            110, 168, 171, 127, 26, 65, 104, 93, 106, 214, 42, 169, 20, 109,
            48, 29, 79, 23, 235, 10, 224>>, <<37, 74, 111>>, 2, 2>> :> <<112,
            216, 226, 40, 66, 232, 109, 12, 233, 145, 146, 196, 38, 125, 96,
            42, 251, 93, 202, 98, 231, 167, 11, 135, 36, 99, 192, 174, 52,
            105, 124, 186>>)
        @@ (<<SHA256, <<99, 83, 97, 196, 139, 185, 234, 177, 65, 152, 231,
            110, 168, 171, 127, 26, 65, 104, 93, 106, 214, 42, 169, 20, 109,
            48, 29, 79, 23, 235, 10, 224>>, <<0, 0, 0, 0, 0, 0, 0, 0, 0, 0, 0,
            0, 0, 0, 0, 0>>, 2, 2>> :> <<109, 6, 68, 74, 125, 230, 169, 147,
            225, 227, 176, 113, 27, 244, 234, 174, 72, 147, 4, 66, 60, 43,
            190, 180, 140, 92, 55, 85, 16, 148, 201, 244>>)
        @@ (<<SHA256, <<99, 83, 97, 196, 139, 185, 234, 177, 65, 152, 231,
            110, 168, 171, 127, 26, 65, 104, 93, 106, 214, 42, 169, 20, 109,
            48, 29, 79, 23, 235, 10, 224>>, <<37, 74, 111, 148, 185, 222, 3,
            40, 77, 114, 151, 188, 225, 6, 43, 80>>, 2, 2>> :> <<150, 85, 192,
            243, 78, 88, 28, 155, 117, 10, 143, 122, 70, 138, 144, 9, 79, 31,
            233, 218, 169, 213, 208, 62, 235, 235, 71, 132, 172, 219, 87,
            237>>)
    )
    \* sha256.New, 1000 rounds, block 1
    @@ (
           (<<SHA256, <<>>, <<>>, 1000, 1>> :> <<79, 197, 138, 33, 193, 0,
            206, 24, 53, 184, 249, 153, 29, 115, 139, 86, 150, 93, 20, 178,
            78, 23, 97, 251, 223, 252, 105, 172, 94, 11, 102, 122>>)
        @@ (<<SHA256, <<>>, <<0>>, 1000, 1>> :> <<252, 149, 87, 88, 130, 162,
            149, 159, 181, 111, 140, 178, 73, 174, 184, 162, 39, 198, 140,
            120, 233, 124, 48, 15, 124, 131, 46, 134, 130, 173, 193, 20>>)
        @@ (<<SHA256, <<>>, <<0, 0, 0>>, 1000, 1>> :> <<253, 84, 173, 188,
            188, 211, 205, 1, 106, 0, 10, 213, 232, 98, 100, 141, 237, 251,
            111, 85, 235, 165, 130, 4, 85, 219, 234, 212, 203, 69, 204, 41>>)
        @@ (<<SHA256, <<>>, <<37, 74, 111>>, 1000, 1>> :> <<95, 141, 118, 2,
            127, 33, 29, 91, 101, 186, 42, 5, 74, 27, 175, 35, 172, 68, 161,
            196, 166, 103, 173, 161, 213, 28, 252, 88, 231, 118, 168, 111>>)
        @@ (<<SHA256, <<>>, <<0, 0, 0, 0, 0, 0, 0, 0, 0, 0, 0, 0, 0, 0, 0,
            0>>, 1000, 1>> :> <<93, 156, 110, 127, 221, 185, 1, 127, 193, 6,
            157, 234, 205, 118, 160, 144, 139, 42, 242, 84, 233, 96, 91, 126,
            152, 254, 251, 183, 61, 46, 240, 37>>)
        @@ (<<SHA256, <<>>, <<37, 74, 111, 148, 185, 222, 3, 40, 77, 114, 151,
            188, 225, 6, 43, 80>>, 1000, 1>> :> <<131, 104, 165, 195, 177,
            250, 248, 250, 62, 207, 31, 239, 85, 150, 8, 165, 24, 79, 199,
            172, 227, 253, 77, 15, 153, 152, 169, 93, 179, 7, 27, 207>>)
        @@ (<<SHA256, <<97>>, <<>>, 1000, 1>> :> <<168, 230, 189, 233, 137,
            234, 34, 169, 159, 64, 17, 75, 228, 57, 81, 102, 232, 157, 230,
            189, 166, 90, 173, 170, 142, 199, 239, 36, 226, 83, 135, 247>>)
        @@ (<<SHA256, <<97>>, <<0>>, 1000, 1>> :> <<122, 72, 248, 244, 84,
            135, 26, 95, 102, 250, 251, 1, 211, 28, 200, 152, 131, 170, 188,
            222, 250, 122, 233, 83, 79, 80, 245, 249, 55, 10, 69, 148>>)
        @@ (<<SHA256, <<97>>, <<0, 0, 0>>, 1000, 1>> :> <<249, 18, 234, 13,
            205, 88, 194, 151, 110, 156, 157, 243, 11, 152, 75, 86, 8, 87,
            224, 240, 221, 113, 195, 157, 221, 71, 233, 237, 245, 143, 130,
            160>>)
        @@ (<<SHA256, <<97>>, <<37, 74, 111>>, 1000, 1>> :> <<234, 44, 166,
            25, 254, 22, 185, 1, 141, 48, 84, 108, 12, 221, 143, 83, 254, 205,
            37, 34, 30, 185, 53, 151, 143, 20, 253, 152, 153, 124, 71, 31>>)
        @@ (<<SHA256, <<97>>, <<0, 0, 0, 0, 0, 0, 0, 0, 0, 0, 0, 0, 0, 0, 0,
            0>>, 1000, 1>> :> <<167, 142, 165, 31, 59, 119, 251, 154, 187,
            115, 65, 154, 93, 143, 184, 252, 223, 156, 204, 67, 109, 249, 159,
            215, 196, 11, 217, 80, 233, 214, 190, 43>>)
        @@ (<<SHA256, <<97>>, <<37, 74, 111, 148, 185, 222, 3, 40, 77, 114,
            151, 188, 225, 6, 43, 80>>, 1000, 1>> :> <<229, 51, 59, 159, 144,
            29, 244, 216, 29, 237, 148, 70, 131, 108, 80, 173, 186, 151, 40,
            177, 122, 154, 241, 203, 54, 103, 209, 197, 197, 217, 12, 234>>)
        @@ (<<SHA256, <<0, 97>>, <<>>, 1000, 1>> :> <<104, 149, 69, 222, 46,
            99, 12, 46, 138, 248, 241, 108, 90, 138, 236, 220, 133, 144, 180,
            24, 66, 50, 68, 229, 201, 242, 68, 67, 138, 160, 41, 129>>)
        @@ (<<SHA256, <<0, 97>>, <<0>>, 1000, 1>> :> <<90, 105, 174, 97, 194,
            44, 24, 67, 207, 202, 133, 221, 61, 130, 215, 171, 162, 69, 66,
            166, 6, 46, 150, 166, 35, 19, 198, 180, 151, 163, 141, 82>>)
        @@ (<<SHA256, <<0, 97>>, <<0, 0, 0>>, 1000, 1>> :> <<96, 64, 188, 238,
            82, 31, 3, 242, 106, 9, 36, 155, 25, 51, 145, 80, 186, 57, 195,
            251, 106, 246, 216, 67, 10, 202, 53, 155, 87, 141, 197, 159>>)
        @@ (<<SHA256, <<0, 97>>, <<37, 74, 111>>, 1000, 1>> :> <<169, 166,
            128, 59, 26, 7, 104, 15, 89, 32, 72, 164, 26, 193, 171, 75, 233,
            63, 129, 12, 229, 124, 84, 157, 185, 71, 17, 8, 107, 33, 104,
            239>>)
        @@ (<<SHA256, <<0, 97>>, <<0, 0, 0, 0, 0, 0, 0, 0, 0, 0, 0, 0, 0, 0,
            0, 0>>, 1000, 1>> :> <<231, 145, 34, 192, 64, 208, 84, 162, 3,
            178, 228, 242, 23, 189, 238, 176, 90, 14, 136, 225, 143, 125, 134,
            136, 33, 54, 24, 147, 65, 57, 246, 62>>)
        @@ (<<SHA256, <<0, 97>>, <<37, 74, 111, 148, 185, 222, 3, 40, 77, 114,
            151, 188, 225, 6, 43, 80>>, 1000, 1>> :> <<89, 179, 80, 112, 165,
            70, 42, 121, 26, 79, 40, 107, 233, 89, 71, 10, 248, 163, 103, 159,
            101, 16, 42, 69, 159, 59, 37, 53, 89, 209, 203, 50>>)
        @@ (<<SHA256, <<97, 97>>, <<>>, 1000, 1>> :> <<241, 250, 30, 137, 135,
            159, 11, 32, 96, 210, 146, 25, 170, 132, 22, 44, 219, 119, 9, 76,
            13, 134, 153, 119, 171, 7, 76, 44, 203, 66, 67, 153>>)
        @@ (<<SHA256, <<97, 97>>, <<0>>, 1000, 1>> :> <<1, 139, 155, 98, 177,
            129, 72, 149, 149, 40, 205, 252, 6, 220, 77, 84, 131, 187, 155,
            125, 127, 186, 229, 226, 255, 208, 31, 203, 241, 183, 99, 57>>)
        @@ (<<SHA256, <<97, 97>>, <<0, 0, 0>>, 1000, 1>> :> <<175, 223, 43,
            90, 195, 223, 199, 92, 233, 173, 251, 228, 125, 145, 229, 96, 1,
            192, 166, 126, 111, 14, 122, 78, 82, 57, 39, 0, 100, 165, 54,
            219>>)
        @@ (<<SHA256, <<97, 97>>, <<37, 74, 111>>, 1000, 1>> :> <<114, 200,
            195, 127, 182, 123, 16, 74, 102, 76, 28, 4, 111, 137, 90, 78, 32,
            97, 74, 149, 89, 26, 133, 49, 47, 127, 169, 75, 214, 12, 106,
            80>>)
        @@ (<<SHA256, <<97, 97>>, <<0, 0, 0, 0, 0, 0, 0, 0, 0, 0, 0, 0, 0, 0,
            0, 0>>, 1000, 1>> :> <<0, 127, 208, 147, 181, 39, 12, 174, 33,
            188, 110, 218, 158, 66, 44, 181, 231, 141, 58, 10, 122, 170, 77,
            89, 74, 49, 49, 28, 84, 189, 174, 7>>)
        @@ (<<SHA256, <<97, 97>>, <<37, 74, 111, 148, 185, 222, 3, 40, 77,
            114, 151, 188, 225, 6, 43, 80>>, 1000, 1>> :> <<13, 176, 151, 71,
            100, 26, 88, 92, 191, 116, 161, 156, 53, 161, 201, 126, 102, 96,
            32, 201, 100, 62, 78, 228, 213, 216, 44, 147, 13, 107, 190, 182>>)
        @@ (<<SHA256, <<0, 0, 97>>, <<>>, 1000, 1>> :> <<102, 220, 241, 11,
            124, 157, 191, 85, 20, 97, 23, 212, 142, 1, 39, 9, 25, 156, 104,
            245, 87, 156, 129, 182, 162, 75, 33, 38, 165, 103, 82, 7>>)
        @@ (<<SHA256, <<0, 0, 97>>, <<0>>, 1000, 1>> :> <<53, 78, 17, 173,
            185, 65, 51, 15, 193, 6, 76, 73, 67, 20, 19, 76, 91, 119, 86, 186,
            27, 20, 59, 249, 225, 27, 195, 124, 53, 56, 136, 84>>)
        @@ (<<SHA256, <<0, 0, 97>>, <<0, 0, 0>>, 1000, 1>> :> <<174, 96, 215,
            220, 138, 4, 230, 253, 226, 84, 154, 97, 101, 253, 145, 174, 137,
            13, 178, 211, 68, 101, 239, 76, 119, 130, 78, 66, 184, 83, 2,
            98>>)
        @@ (<<SHA256, <<0, 0, 97>>, <<37, 74, 111>>, 1000, 1>> :> <<2, 129,
            35, 2, 93, 35, 2, 96, 24, 198, 179, 45, 235, 58, 90, 1, 167, 180,
            137, 94, 85, 166, 182, 139, 103, 208, 178, 36, 61, 98, 52, 135>>)
        @@ (<<SHA256, <<0, 0, 97>>, <<0, 0, 0, 0, 0, 0, 0, 0, 0, 0, 0, 0, 0,
            0, 0, 0>>, 1000, 1>> :> <<161, 89, 65, 10, 184, 123, 70, 136, 117,
            184, 223, 12, 150, 158, 137, 77, 240, 203, 205, 94, 17, 206, 85,
            189, 72, 241, 86, 92, 99, 58, 147, 147>>)
        @@ (<<SHA256, <<0, 0, 97>>, <<37, 74, 111, 148, 185, 222, 3, 40, 77,
            114, 151, 188, 225, 6, 43, 80>>, 1000, 1>> :> <<172, 12, 142, 154,
            154, 204, 42, 136, 186, 45, 88, 152, 252, 212, 123, 137, 250, 165,
            86, 50, 115, 97, 33, 235, 103, 22, 132, 239, 100, 228, 149, 17>>)
        @@ (<<SHA256, <<0, 97, 97>>, <<>>, 1000, 1>> :> <<139, 249, 187, 241,
            45, 147, 27, 28, 32, 47, 190, 2, 219, 90, 185, 242, 91, 55, 179,
            242, 104, 128, 67, 252, 101, 54, 202, 253, 81, 136, 44, 201>>)
        @@ (<<SHA256, <<0, 97, 97>>, <<0>>, 1000, 1>> :> <<36, 106, 29, 238,
            179, 223, 23, 59, 214, 212, 18, 232, 100, 204, 10, 203, 242, 229,
            33, 86, 27, 71, 182, 218, 94, 150, 64, 51, 49, 28, 143, 166>>)
        @@ (<<SHA256, <<0, 97, 97>>, <<0, 0, 0>>, 1000, 1>> :> <<214, 151, 30,
            209, 57, 188, 131, 161, 154, 105, 29, 181, 148, 134, 190, 152,
            176, 60, 26, 157, 248, 162, 160, 184, 211, 174, 40, 203, 245, 10,
            47, 219>>)
        @@ (<<SHA256, <<0, 97, 97>>, <<37, 74, 111>>, 1000, 1>> :> <<159, 243,
            142, 197, 5, 33, 165, 74, 208, 34, 220, 188, 45, 185, 199, 39, 7,
            230, 124, 90, 232, 195, 132, 131, 132, 221, 50, 49, 19, 46, 152,
            220>>)
        @@ (<<SHA256, <<0, 97, 97>>, <<0, 0, 0, 0, 0, 0, 0, 0, 0, 0, 0, 0, 0,
            0, 0, 0>>, 1000, 1>> :> <<179, 157, 40, 12, 200, 144, 215, 70, 89,
            237, 116, 83, 165, 129, 215, 161, 144, 127, 221, 155, 183, 91, 94,
            213, 114, 86, 246, 135, 246, 123, 87, 71>>)
        @@ (<<SHA256, <<0, 97, 97>>, <<37, 74, 111, 148, 185, 222, 3, 40, 77,
            114, 151, 188, 225, 6, 43, 80>>, 1000, 1>> :> <<255, 182, 5, 144,
            9, 27, 124, 185, 156, 90, 56, 207, 207, 41, 226, 149, 141, 185,
            196, 149, 4, 251, 59, 12, 85, 154, 244, 32, 160, 63, 129, 184>>)
        @@ (<<SHA256, <<97, 0, 97>>, <<>>, 1000, 1>> :> <<201, 148, 85, 193,
            136, 134, 133, 183, 145, 4, 225, 174, 241, 247, 166, 241, 7, 240,
            127, 254, 95, 77, 240, 24, 182, 33, 195, 86, 54, 117, 227, 97>>)
        @@ (<<SHA256, <<97, 0, 97>>, <<0>>, 1000, 1>> :> <<147, 95, 240, 34,
            77, 198, 238, 126, 85, 138, 201, 223, 91, 192, 249, 99, 206, 109,
            34, 127, 153, 144, 31, 157, 113, 113, 227, 102, 208, 111, 12,
            13>>)
        @@ (<<SHA256, <<97, 0, 97>>, <<0, 0, 0>>, 1000, 1>> :> <<253, 236, 31,
            112, 24, 206, 44, 79, 254, 255, 34, 226, 134, 7, 95, 249, 118,
            202, 199, 108, 22, 198, 61, 192, 40, 77, 194, 233, 59, 139, 195,
            121>>)
        @@ (<<SHA256, <<97, 0, 97>>, <<37, 74, 111>>, 1000, 1>> :> <<113, 124,
            78, 196, 21, 222, 23, 254, 117, 189, 2, 111, 31, 252, 162, 208,
            55, 205, 124, 56, 101, 189, 109, 132, 151, 142, 171, 192, 19, 92,
            192, 202>>)
        @@ (<<SHA256, <<97, 0, 97>>, <<0, 0, 0, 0, 0, 0, 0, 0, 0, 0, 0, 0, 0,
            0, 0, 0>>, 1000, 1>> :> <<208, 181, 133, 190, 229, 248, 149, 65,
            18, 10, 65, 213, 33, 195, 23, 246, 184, 23, 56, 100, 43, 36, 207,
            147, 186, 84, 1, 169, 173, 74, 41, 74>>)
        @@ (<<SHA256, <<97, 0, 97>>, <<37, 74, 111, 148, 185, 222, 3, 40, 77,
            114, 151, 188, 225, 6, 43, 80>>, 1000, 1>> :> <<65, 205, 79, 6,
            182, 58, 173, 234, 253, 128, 83, 98, 219, 87, 148, 218, 26, 246,
            7, 189, 91, 158, 68, 111, 254, 21, 149, 114, 13, 133, 34, 188>>)
        @@ (<<SHA256, <<97, 97, 97>>, <<>>, 1000, 1>> :> <<48, 189, 58, 188,
            163, 119, 117, 14, 252, 168, 46, 205, 141, 153, 249, 222, 67, 105,
            123, 208, 47, 86, 90, 191, 235, 171, 32, 186, 144, 108, 136,
            247>>)
        @@ (<<SHA256, <<97, 97, 97>>, <<0>>, 1000, 1>> :> <<27, 59, 170, 199,
            87, 21, 162, 124, 10, 204, 87, 18, 230, 179, 118, 245, 71, 151,
            209, 68, 248, 224, 203, 76, 86, 220, 254, 89, 121, 180, 76, 151>>)
        @@ (<<SHA256, <<97, 97, 97>>, <<0, 0, 0>>, 1000, 1>> :> <<63, 163,
            229, 192, 200, 184, 87, 228, 155, 117, 198, 166, 27, 114, 173,
            225, 179, 195, 143, 115, 8, 33, 211, 15, 121, 156, 69, 171, 198,
            156, 88, 175>>)
        @@ (<<SHA256, <<97, 97, 97>>, <<37, 74, 111>>, 1000, 1>> :> <<76, 30,
            235, 10, 199, 170, 1, 107, 225, 53, 149, 57, 188, 131, 4, 88, 68,
            20, 112, 253, 8, 53, 232, 92, 231, 105, 189, 205, 225, 118, 211,
            112>>)
        @@ (<<SHA256, <<97, 97, 97>>, <<0, 0, 0, 0, 0, 0, 0, 0, 0, 0, 0, 0, 0,
            0, 0, 0>>, 1000, 1>> :> <<250, 174, 32, 197, 129, 18, 72, 75, 251,
            196, 132, 209, 81, 236, 232, 227, 214, 113, 108, 180, 180, 40,
            190, 149, 88, 134, 190, 105, 179, 56, 175, 139>>)
        @@ (<<SHA256, <<97, 97, 97>>, <<37, 74, 111, 148, 185, 222, 3, 40, 77,
            114, 151, 188, 225, 6, 43, 80>>, 1000, 1>> :> <<54, 27, 134, 120,
            213, 50, 47, 18, 124, 59, 174, 174, 43, 9, 133, 76, 190, 22, 10,
            87, 37, 52, 96, 3, 145, 11, 76, 182, 4, 221, 55, 247>>)
        @@ (<<SHA256, <<99, 83, 97, 196, 139, 185, 234, 177, 65, 152, 231,
            110, 168, 171, 127, 26, 65, 104, 93, 106, 214, 42, 169, 20, 109,
            48, 29, 79, 23, 235, 10, 224>>, <<>>, 1000, 1>> :> <<21, 182, 49,
            2, 245, 122, 105, 200, 218, 198, 103, 149, 119, 32, 48, 21, 163,
            208, 170, 136, 229, 141, 69, 11, 107, 115, 222, 168, 97, 245, 32,
            149>>)
        @@ (<<SHA256, <<99, 83, 97, 196, 139, 185, 234, 177, 65, 152, 231,
            110, 168, 171, 127, 26, 65, 104, 93, 106, 214, 42, 169, 20, 109,
            48, 29, 79, 23, 235, 10, 224>>, <<0>>, 1000, 1>> :> <<233, 240,
            138, 221, 152, 251, 23, 177, 145, 9, 67, 97, 250, 24, 165, 166,
            216, 159, 127, 245, 237, 29, 196, 237, 151, 231, 141, 207, 120,
            59, 224, 151>>)
        @@ (<<SHA256, <<99, 83, 97, 196, 139, 185, 234, 177, 65, 152, 231,
            110, 168, 171, 127, 26, 65, 104, 93, 106, 214, 42, 169, 20, 109,
            48, 29, 79, 23, 235, 10, 224>>, <<0, 0, 0>>, 1000, 1>> :> <<133,
            202, 62, 38, 227, 160, 34, 232, 218, 103, 11, 26, 247, 205, 11,
            187, 138, 223, 150, 15, 120, 161, 26, 53, 2, 0, 162, 119, 8, 241,
            125, 240>>)
        @@ (<<SHA256, <<99, 83, 97, 196, 139, 185, 234, 177, 65, 152, 231,
            110, 168, 171, 127, 26, 65, 104, 93, 106, 214, 42, 169, 20, 109,
            48, 29, 79, 23, 235, 10, 224>>, <<37, 74, 111>>, 1000, 1>> :>
            <<175, 37, 42, 163, 56, 35, 128, 66, 182, 20, 65, 53, 167, 170,
            30, 188, 221, 203, 63, 26, 159, 215, 118, 215, 1, 112, 84, 33,
            157, 117, 74, 193>>)
        @@ (<<SHA256, <<99, 83, 97, 196, 139, 185, 234, 177, 65, 152, 231,
            110, 168, 171, 127, 26, 65, 104, 93, 106, 214, 42, 169, 20, 109,
            48, 29, 79, 23, 235, 10, 224>>, <<0, 0, 0, 0, 0, 0, 0, 0, 0, 0, 0,
            0, 0, 0, 0, 0>>, 1000, 1>> :> <<61, 124, 190, 47, 206, 131, 14,
            90, 70, 22, 108, 17, 62, 159, 145, 56, 246, 157, 30, 237, 23, 235,
            188, 188, 123, 92, 188, 8, 69, 99, 207, 182>>)
        @@ (<<SHA256, <<99, 83, 97, 196, 139, 185, 234, 177, 65, 152, 231,
            110, 168, 171, 127, 26, 65, 104, 93, 106, 214, 42, 169, 20, 109,
            48, 29, 79, 23, 235, 10, 224>>, <<37, 74, 111, 148, 185, 222, 3,
            40, 77, 114, 151, 188, 225, 6, 43, 80>>, 1000, 1>> :> <<201, 56,
            93, 144, 36, 136, 9, 237, 111, 24, 3, 44, 228, 230, 34, 13, 182,
            177, 158, 158, 121, 246, 184, 120, 103, 4, 191, 198, 128, 123, 82,
            27>>)
    )
    \* sha256.New, 1000 rounds, block 2
    @@ (
           (<<SHA256, <<>>, <<>>, 1000, 2>> :> <<158, 63, 97, 160, 103, 7,
            130, 192, 240, 34, 241, 125, 237, 36, 209, 133, 229, 141, 94, 75,
            214, 48, 165, 244, 189, 70, 158, 229, 185, 131, 102, 167>>)
        @@ (<<SHA256, <<>>, <<0>>, 1000, 2>> :> <<248, 24, 170, 20, 243, 222,
            100, 133, 40, 44, 241, 215, 252, 108, 67, 20, 110, 238, 144, 232,
            128, 157, 187, 197, 34, 217, 75, 66, 213, 196, 25, 213>>)
        @@ (<<SHA256, <<>>, <<0, 0, 0>>, 1000, 2>> :> <<35, 129, 101, 177,
            112, 187, 115, 87, 122, 97, 202, 179, 121, 214, 220, 194, 58, 180,
            144, 191, 145, 40, 118, 202, 183, 230, 242, 225, 52, 22, 230,
            93>>)
        @@ (<<SHA256, <<>>, <<37, 74, 111>>, 1000, 2>> :> <<144, 14, 245, 11,
            106, 228, 20, 115, 74, 78, 28, 64, 122, 89, 67, 237, 73, 204, 14,
            0, 236, 119, 210, 93, 31, 117, 110, 61, 183, 128, 75, 85>>)
        @@ (<<SHA256, <<>>, <<0, 0, 0, 0, 0, 0, 0, 0, 0, 0, 0, 0, 0, 0, 0,
            0>>, 1000, 2>> :> <<213, 42, 83, 236, 89, 15, 186, 79, 232, 192,
            96, 22, 173, 65, 177, 187, 109, 31, 134, 172, 129, 90, 110, 196,
            219, 173, 235, 144, 114, 231, 192, 233>>)
        @@ (<<SHA256, <<>>, <<37, 74, 111, 148, 185, 222, 3, 40, 77, 114, 151,
            188, 225, 6, 43, 80>>, 1000, 2>> :> <<38, 66, 206, 118, 143, 140,
            112, 124, 21, 40, 134, 186, 196, 175, 16, 246, 81, 7, 55, 178,
            182, 240, 35, 250, 16, 174, 232, 217, 150, 42, 123, 99>>)
        @@ (<<SHA256, <<97>>, <<>>, 1000, 2>> :> <<234, 146, 86, 150, 130,
            225, 190, 72, 26, 115, 136, 114, 227, 212, 55, 29, 194, 109, 87,
            168, 247, 74, 158, 203, 230, 217, 69, 3, 139, 110, 225, 154>>)
        @@ (<<SHA256, <<97>>, <<0>>, 1000, 2>> :> <<92, 213, 200, 101, 153,
            154, 202, 117, 187, 193, 37, 113, 208, 84, 25, 151, 247, 156, 181,
            73, 54, 159, 73, 77, 67, 100, 173, 96, 97, 38, 192, 187>>)
        @@ (<<SHA256, <<97>>, <<0, 0, 0>>, 1000, 2>> :> <<48, 193, 224, 125,
            150, 179, 141, 72, 68, 142, 184, 28, 127, 119, 223, 188, 67, 8,
            140, 18, 140, 16, 168, 210, 176, 158, 82, 83, 119, 81, 212, 249>>)
        @@ (<<SHA256, <<97>>, <<37, 74, 111>>, 1000, 2>> :> <<36, 13, 179,
            109, 153, 66, 159, 206, 228, 11, 165, 244, 191, 239, 150, 6, 198,
            199, 111, 173, 225, 161, 5, 36, 43, 117, 176, 4, 131, 175, 220,
            253>>)
        @@ (<<SHA256, <<97>>, <<0, 0, 0, 0, 0, 0, 0, 0, 0, 0, 0, 0, 0, 0, 0,
            0>>, 1000, 2>> :> <<121, 90, 49, 213, 132, 82, 43, 101, 174, 244,
            238, 37, 242, 196, 10, 241, 72, 85, 37, 38, 248, 221, 220, 237,
            211, 200, 228, 119, 88, 145, 74, 228>>)
        @@ (<<SHA256, <<97>>, <<37, 74, 111, 148, 185, 222, 3, 40, 77, 114,
            151, 188, 225, 6, 43, 80>>, 1000, 2>> :> <<95, 179, 124, 148, 177,
            87, 183, 72, 176, 212, 209, 17, 226, 70, 36, 189, 226, 58, 247, 8,
            35, 187, 138, 15, 64, 184, 70, 29, 98, 92, 249, 237>>)
        @@ (<<SHA256, <<0, 97>>, <<>>, 1000, 2>> :> <<184, 200, 252, 175, 244,
            23, 132, 226, 66, 183, 18, 11, 6, 247, 13, 222, 230, 23, 65, 248,
            27, 141, 93, 209, 138, 244, 179, 83, 41, 85, 219, 0>>)
        @@ (<<SHA256, <<0, 97>>, <<0>>, 1000, 2>> :> <<48, 18, 39, 132, 109,
            197, 12, 203, 78, 178, 175, 8, 184, 68, 57, 116, 193, 83, 211, 68,
            164, 246, 109, 43, 27, 137, 65, 224, 109, 164, 73, 116>>)
        @@ (<<SHA256, <<0, 97>>, <<0, 0, 0>>, 1000, 2>> :> <<175, 60, 21, 167,
            119, 25, 205, 129, 103, 204, 29, 75, 132, 10, 121, 40, 1, 128,
            123, 178, 185, 3, 209, 169, 251, 142, 41, 91, 218, 122, 169,
            131>>)
        @@ (<<SHA256, <<0, 97>>, <<37, 74, 111>>, 1000, 2>> :> <<83, 87, 109,
            244, 205, 212, 230, 242, 30, 38, 55, 195, 81, 75, 171, 157, 148,
            55, 7, 35, 205, 32, 60, 241, 64, 186, 115, 110, 140, 161, 174,
            196>>)
        @@ (<<SHA256, <<0, 97>>, <<0, 0, 0, 0, 0, 0, 0, 0, 0, 0, 0, 0, 0, 0,
            0, 0>>, 1000, 2>> :> <<220, 232, 177, 206, 14, 115, 19, 118, 87,
            76, 5, 68, 201, 13, 86, 248, 253, 235, 69, 241, 10, 183, 251, 206,
            13, 242, 206, 21, 27, 138, 251, 41>>)
        @@ (<<SHA256, <<0, 97>>, <<37, 74, 111, 148, 185, 222, 3, 40, 77, 114,
            151, 188, 225, 6, 43, 80>>, 1000, 2>> :> <<160, 230, 112, 98, 248,
            13, 223, 23, 165, 252, 225, 97, 134, 151, 236, 40, 71, 107, 54,
            103, 33, 247, 113, 87, 198, 79, 215, 228, 122, 121, 91, 78>>)
        @@ (<<SHA256, <<97, 97>>, <<>>, 1000, 2>> :> <<209, 142, 186, 98, 49,
            219, 159, 94, 99, 20, 242, 254, 21, 7, 129, 19, 185, 196, 220,
            157, 46, 46, 231, 0, 15, 140, 151, 81, 70, 88, 81, 127>>)
        @@ (<<SHA256, <<97, 97>>, <<0>>, 1000, 2>> :> <<190, 29, 58, 132, 62,
            176, 52, 76, 255, 20, 66, 177, 232, 194, 144, 40, 60, 152, 200,
            243, 44, 146, 44, 189, 31, 142, 62, 141, 239, 183, 10, 219>>)
        @@ (<<SHA256, <<97, 97>>, <<0, 0, 0>>, 1000, 2>> :> <<29, 219, 209,
            150, 118, 94, 213, 247, 221, 174, 57, 53, 92, 242, 249, 187, 211,
            64, 3, 110, 39, 45, 111, 18, 238, 143, 199, 88, 86, 254, 168,
            15>>)
        @@ (<<SHA256, <<97, 97>>, <<37, 74, 111>>, 1000, 2>> :> <<233, 108,
            191, 125, 93, 106, 220, 186, 135, 219, 240, 246, 92, 41, 106, 40,
            187, 137, 10, 253, 183, 50, 85, 249, 58, 36, 28, 134, 198, 219,
            37, 163>>)
        @@ (<<SHA256, <<97, 97>>, <<0, 0, 0, 0, 0, 0, 0, 0, 0, 0, 0, 0, 0, 0,
            0, 0>>, 1000, 2>> :> <<246, 102, 203, 78, 11, 132, 67, 157, 244,
            67, 88, 160, 70, 37, 153, 19, 165, 7, 232, 221, 17, 65, 161, 241,
            138, 138, 128, 184, 23, 22, 7, 91>>)
        @@ (<<SHA256, <<97, 97>>, <<37, 74, 111, 148, 185, 222, 3, 40, 77,
            114, 151, 188, 225, 6, 43, 80>>, 1000, 2>> :> <<162, 66, 16, 55,
            129, 199, 215, 107, 136, 97, 186, 118, 143, 45, 231, 36, 116, 146,
            170, 234, 153, 94, 239, 107, 207, 216, 165, 198, 104, 105, 141,
            172>>)
        @@ (<<SHA256, <<0, 0, 97>>, <<>>, 1000, 2>> :> <<2, 231, 112, 179, 95,
            182, 116, 65, 32, 109, 18, 144, 217, 200, 231, 47, 38, 74, 8, 170,
            187, 175, 85, 34, 177, 57, 198, 62, 230, 58, 164, 116>>)
        @@ (<<SHA256, <<0, 0, 97>>, <<0>>, 1000, 2>> :> <<140, 214, 155, 209,
            136, 125, 187, 123, 165, 102, 50, 221, 185, 93, 191, 139, 85, 27,
            121, 215, 3, 13, 33, 182, 93, 30, 160, 236, 194, 169, 144, 56>>)
        @@ (<<SHA256, <<0, 0, 97>>, <<0, 0, 0>>, 1000, 2>> :> <<120, 172, 93,
            127, 91, 138, 33, 61, 41, 10, 45, 235, 246, 205, 27, 41, 59, 239,
            82, 82, 171, 109, 149, 138, 147, 118, 8, 119, 39, 78, 235, 119>>)
        @@ (<<SHA256, <<0, 0, 97>>, <<37, 74, 111>>, 1000, 2>> :> <<178, 198,
            50, 158, 1, 156, 149, 225, 124, 46, 148, 173, 110, 225, 29, 209,
            177, 163, 57, 179, 193, 6, 228, 166, 49, 89, 57, 176, 223, 145,
            100, 226>>)
        @@ (<<SHA256, <<0, 0, 97>>, <<0, 0, 0, 0, 0, 0, 0, 0, 0, 0, 0, 0, 0,
            0, 0, 0>>, 1000, 2>> :> <<87, 107, 183, 134, 185, 129, 73, 75, 79,
            122, 157, 192, 143, 143, 141, 16, 162, 147, 93, 122, 167, 51, 158,
            195, 89, 34, 244, 152, 234, 33, 7, 35>>)
        @@ (<<SHA256, <<0, 0, 97>>, <<37, 74, 111, 148, 185, 222, 3, 40, 77,
            114, 151, 188, 225, 6, 43, 80>>, 1000, 2>> :> <<218, 156, 230, 78,
            189, 113, 117, 237, 57, 145, 34, 208, 209, 183, 255, 92, 200, 74,
            213, 176, 7, 252, 167, 196, 57, 39, 194, 193, 76, 247, 147, 61>>)
        @@ (<<SHA256, <<0, 97, 97>>, <<>>, 1000, 2>> :> <<131, 203, 46, 200,
            0, 212, 57, 191, 55, 153, 98, 174, 70, 88, 208, 94, 73, 150, 116,
            248, 2, 214, 43, 112, 85, 126, 59, 226, 157, 147, 143, 67>>)
        @@ (<<SHA256, <<0, 97, 97>>, <<0>>, 1000, 2>> :> <<201, 46, 109, 65,
            45, 21, 83, 110, 155, 249, 42, 4, 114, 224, 51, 151, 44, 6, 58, 0,
            193, 42, 151, 242, 76, 136, 45, 107, 77, 43, 11, 156>>)
        @@ (<<SHA256, <<0, 97, 97>>, <<0, 0, 0>>, 1000, 2>> :> <<172, 141, 94,
            157, 28, 172, 134, 76, 137, 185, 172, 115, 198, 124, 249, 61, 135,
            215, 74, 6, 95, 183, 228, 70, 147, 86, 74, 37, 11, 136, 30, 254>>)
        @@ (<<SHA256, <<0, 97, 97>>, <<37, 74, 111>>, 1000, 2>> :> <<126, 148,
            73, 117, 210, 6, 108, 71, 145, 195, 63, 200, 220, 144, 151, 26,
            82, 189, 138, 24, 46, 148, 115, 99, 63, 68, 157, 153, 122, 12,
            166, 156>>)
        @@ (<<SHA256, <<0, 97, 97>>, <<0, 0, 0, 0, 0, 0, 0, 0, 0, 0, 0, 0, 0,
            0, 0, 0>>, 1000, 2>> :> <<229, 124, 235, 41, 180, 56, 131, 94, 80,
            108, 232, 226, 17, 203, 204, 186, 188, 177, 79, 107, 175, 91, 43,
            94, 190, 56, 145, 63, 102, 210, 49, 118>>)
        @@ (<<SHA256, <<0, 97, 97>>, <<37, 74, 111, 148, 185, 222, 3, 40, 77,
            114, 151, 188, 225, 6, 43, 80>>, 1000, 2>> :> <<190, 167, 79, 121,
            73, 171, 57, 246, 128, 54, 152, 12, 39, 206, 222, 209, 42, 24,
            131, 171, 27, 78, 38, 213, 254, 17, 251, 241, 191, 42, 53, 26>>)
        @@ (<<SHA256, <<97, 0, 97>>, <<>>, 1000, 2>> :> <<118, 45, 133, 176,
            16, 117, 219, 247, 27, 178, 173, 1, 19, 78, 24, 16, 96, 126, 150,
            228, 233, 1, 34, 181, 31, 213, 45, 9, 48, 74, 229, 182>>)
        @@ (<<SHA256, <<97, 0, 97>>, <<0>>, 1000, 2>> :> <<35, 64, 134, 80,
            207, 157, 249, 115, 52, 238, 168, 0, 164, 249, 22, 148, 16, 212,
            87, 203, 229, 196, 48, 243, 167, 228, 176, 195, 91, 51, 208,
            219>>)
        @@ (<<SHA256, <<97, 0, 97>>, <<0, 0, 0>>, 1000, 2>> :> <<209, 56, 246,
            27, 6, 228, 172, 131, 8, 104, 203, 118, 194, 108, 125, 207, 192,
            69, 144, 201, 211, 122, 148, 205, 94, 177, 199, 153, 224, 188, 78,
            142>>)
        @@ (<<SHA256, <<97, 0, 97>>, <<37, 74, 111>>, 1000, 2>> :> <<190, 44,
            7, 135, 185, 190, 182, 157, 30, 91, 192, 96, 160, 137, 98, 81,
            113, 139, 61, 175, 68, 27, 153, 8, 223, 35, 162, 149, 72, 166, 43,
            224>>)
        @@ (<<SHA256, <<97, 0, 97>>, <<0, 0, 0, 0, 0, 0, 0, 0, 0, 0, 0, 0, 0,
            0, 0, 0>>, 1000, 2>> :> <<185, 229, 71, 208, 159, 100, 2, 71, 168,
            23, 224, 203, 231, 108, 34, 72, 126, 167, 41, 85, 100, 231, 25,
            219, 38, 9, 111, 102, 254, 19, 121, 27>>)
        @@ (<<SHA256, <<97, 0, 97>>, <<37, 74, 111, 148, 185, 222, 3, 40, 77,
            114, 151, 188, 225, 6, 43, 80>>, 1000, 2>> :> <<150, 152, 242,
            113, 77, 43, 127, 172, 30, 128, 102, 239, 244, 185, 20, 144, 3,
            141, 67, 226, 170, 246, 242, 41, 120, 254, 48, 124, 106, 2, 141,
            29>>)
        @@ (<<SHA256, <<97, 97, 97>>, <<>>, 1000, 2>> :> <<157, 93, 115, 14,
            112, 218, 229, 124, 137, 141, 66, 243, 112, 156, 153, 228, 205,
            71, 226, 138, 104, 148, 117, 204, 228, 94, 145, 30, 111, 33, 90,
            40>>)
        @@ (<<SHA256, <<97, 97, 97>>, <<0>>, 1000, 2>> :> <<63, 96, 24, 107,
            202, 35, 69, 224, 71, 62, 7, 209, 58, 246, 205, 33, 158, 156, 157,
            110, 83, 191, 231, 39, 177, 102, 78, 158, 178, 154, 134, 67>>)
        @@ (<<SHA256, <<97, 97, 97>>, <<0, 0, 0>>, 1000, 2>> :> <<44, 129,
            211, 218, 212, 52, 146, 233, 9, 201, 188, 58, 246, 237, 233, 66,
            122, 20, 242, 172, 250, 215, 147, 214, 251, 144, 23, 70, 175, 138,
            22, 227>>)
        @@ (<<SHA256, <<97, 97, 97>>, <<37, 74, 111>>, 1000, 2>> :> <<195,
            231, 215, 84, 118, 213, 20, 171, 244, 31, 101, 67, 79, 31, 47,
            174, 128, 142, 52, 125, 82, 244, 142, 165, 78, 128, 224, 205, 10,
            3, 102, 116>>)
        @@ (<<SHA256, <<97, 97, 97>>, <<0, 0, 0, 0, 0, 0, 0, 0, 0, 0, 0, 0, 0,
            0, 0, 0>>, 1000, 2>> :> <<165, 113, 53, 216, 73, 103, 22, 112,
            213, 49, 247, 247, 106, 0, 8, 96, 67, 164, 240, 10, 145, 92, 90,
            62, 37, 107, 132, 221, 236, 220, 168, 118>>)
        @@ (<<SHA256, <<97, 97, 97>>, <<37, 74, 111, 148, 185, 222, 3, 40, 77,
            114, 151, 188, 225, 6, 43, 80>>, 1000, 2>> :> <<12, 156, 244, 50,
            3, 2, 232, 192, 51, 249, 120, 11, 233, 33, 125, 202, 16, 199, 241,
            45, 204, 103, 151, 76, 245, 62, 127, 208, 40, 182, 97, 118>>)
        @@ (<<SHA256, <<99, 83, 97, 196, 139, 185, 234, 177, 65, 152, 231,
            110, 168, 171, 127, 26, 65, 104, 93, 106, 214, 42, 169, 20, 109,
            48, 29, 79, 23, 235, 10, 224>>, <<>>, 1000, 2>> :> <<67, 89, 231,
            84, 162, 165, 180, 141, 130, 34, 20, 113, 235, 7, 181, 53, 214,
            147, 18, 178, 4, 169, 238, 162, 47, 74, 141, 49, 89, 47, 72, 43>>)
        @@ (<<SHA256, <<99, 83, 97, 196, 139, 185, 234, 177, 65, 152, 231,
            110, 168, 171, 127, 26, 65, 104, 93, 106, 214, 42, 169, 20, 109,
            48, 29, 79, 23, 235, 10, 224>>, <<0>>, 1000, 2>> :> <<27, 44, 51,
            44, 158, 144, 156, 252, 133, 144, 206, 124, 68, 234, 203, 166,
            162, 14, 170, 80, 118, 227, 181, 168, 6, 29, 170, 234, 142, 206,
            68, 109>>)
        @@ (<<SHA256, <<99, 83, 97, 196, 139, 185, 234, 177, 65, 152, 231,
            110, 168, 171, 127, 26, 65, 104, 93, 106, 214, 42, 169, 20, 109,
            48, 29, 79, 23, 235, 10, 224>>, <<0, 0, 0>>, 1000, 2>> :> <<24,
            66, 110, 195, 193, 99, 142, 254, 122, 171, 217, 140, 31, 87, 178,
            24, 14, 82, 85, 220, 32, 137, 244, 254, 75, 149, 71, 1, 61, 166,
            116, 28>>)
        @@ (<<SHA256, <<99, 83, 97, 196, 139, 185, 234, 177, 65, 152, 231,
            110, 168, 171, 127, 26, 65, 104, 93, 106, 214, 42, 169, 20, 109,
            48, 29, 79, 23, 235, 10, 224>>, <<37, 74, 111>>, 1000, 2>> :>
            <<187, 202, 138, 244, 139, 242, 100, 155, 249, 182, 222, 229, 169,
            189, 71, 172, 60, 34, 119, 250, 254, 196, 82, 146, 125, 250, 226,
            17, 84, 192, 103, 95>>)
        @@ (<<SHA256, <<99, 83, 97, 196, 139, 185, 234, 177, 65, 152, 231,
            110, 168, 171, 127, 26, 65, 104, 93, 106, 214, 42, 169, 20, 109,
            48, 29, 79, 23, 235, 10, 224>>, <<0, 0, 0, 0, 0, 0, 0, 0, 0, 0, 0,
            0, 0, 0, 0, 0>>, 1000, 2>> :> <<77, 252, 4, 129, 118, 241, 251,
            13, 246, 163, 103, 83, 153, 226, 214, 98, 147, 176, 251, 12, 200,
            125, 51, 78, 30, 213, 246, 216, 47, 106, 44, 94>>)
        @@ (<<SHA256, <<99, 83, 97, 196, 139, 185, 234, 177, 65, 152, 231,
            110, 168, 171, 127, 26, 65, 104, 93, 106, 214, 42, 169, 20, 109,
            48, 29, 79, 23, 235, 10, 224>>, <<37, 74, 111, 148, 185, 222, 3,
            40, 77, 114, 151, 188, 225, 6, 43, 80>>, 1000, 2>> :> <<136, 127,
            78, 244, 189, 59, 206, 67, 177, 181, 247, 32, 140, 254, 14, 121,
            154, 94, 178, 6, 4, 99, 34, 2, 142, 55, 77, 190, 199, 188, 22,
            186>>)
    )
    \* sha256.New, 120000 rounds, block 1
    @@ (
           (<<SHA256, <<>>, <<>>, 120000, 1>> :> <<126, 84, 122, 169, 240,
            242, 173, 4, 211, 84, 215, 4, 59, 36, 48, 62, 144, 111, 227, 86,
            20, 217, 128, 136, 219, 12, 105, 191, 210, 19, 39, 93>>)
        @@ (<<SHA256, <<>>, <<0>>, 120000, 1>> :> <<165, 47, 100, 216, 209,
            101, 49, 47, 191, 123, 244, 255, 26, 220, 163, 21, 5, 213, 151,
            22, 84, 201, 175, 26, 205, 124, 37, 127, 48, 53, 98, 191>>)
        @@ (<<SHA256, <<>>, <<0, 0, 0>>, 120000, 1>> :> <<228, 236, 59, 149,
            122, 246, 240, 106, 43, 183, 110, 137, 170, 16, 137, 161, 24, 157,
            98, 56, 50, 0, 157, 111, 141, 53, 84, 125, 19, 238, 118, 232>>)
        @@ (<<SHA256, <<>>, <<37, 74, 111>>, 120000, 1>> :> <<152, 159, 202,
            6, 189, 242, 87, 73, 65, 88, 70, 173, 130, 125, 168, 174, 82, 211,
            14, 39, 97, 228, 198, 89, 212, 214, 193, 30, 189, 16, 49, 151>>)
        @@ (<<SHA256, <<>>, <<0, 0, 0, 0, 0, 0, 0, 0, 0, 0, 0, 0, 0, 0, 0,
            0>>, 120000, 1>> :> <<240, 237, 146, 15, 81, 65, 161, 54, 141,
            139, 199, 194, 148, 82, 58, 245, 45, 22, 192, 103, 45, 123, 157,
            28, 123, 181, 134, 238, 20, 13, 16, 8>>)
        @@ (<<SHA256, <<>>, <<37, 74, 111, 148, 185, 222, 3, 40, 77, 114, 151,
            188, 225, 6, 43, 80>>, 120000, 1>> :> <<32, 83, 108, 164, 133,
            111, 106, 50, 81, 186, 242, 114, 1, 223, 192, 196, 205, 168, 149,
            50, 196, 137, 180, 33, 201, 167, 179, 206, 230, 62, 165, 165>>)
        @@ (<<SHA256, <<97>>, <<>>, 120000, 1>> :> <<207, 252, 244, 150, 12,
            208, 212, 87, 67, 212, 255, 137, 189, 128, 47, 151, 22, 197, 187,
            93, 89, 187, 206, 37, 196, 202, 170, 208, 79, 64, 213, 241>>)
        @@ (<<SHA256, <<97>>, <<0>>, 120000, 1>> :> <<21, 226, 5, 234, 101,
            103, 101, 75, 43, 229, 35, 252, 35, 136, 69, 142, 160, 95, 148,
            239, 160, 74, 185, 186, 68, 154, 32, 234, 100, 215, 31, 210>>)
        @@ (<<SHA256, <<97>>, <<0, 0, 0>>, 120000, 1>> :> <<89, 167, 58, 41,
            71, 53, 174, 48, 3, 110, 15, 47, 101, 239, 184, 212, 105, 219,
            138, 113, 96, 147, 226, 91, 27, 108, 245, 1, 68, 14, 76, 183>>)
        @@ (<<SHA256, <<97>>, <<37, 74, 111>>, 120000, 1>> :> <<197, 226, 130,
            125, 187, 194, 40, 218, 24, 201, 133, 59, 246, 179, 57, 164, 90,
            59, 47, 0, 223, 178, 194, 254, 196, 122, 33, 143, 90, 175, 221,
            100>>)
        @@ (<<SHA256, <<97>>, <<0, 0, 0, 0, 0, 0, 0, 0, 0, 0, 0, 0, 0, 0, 0,
            0>>, 120000, 1>> :> <<198, 64, 9, 25, 41, 107, 109, 123, 145, 236,
            42, 110, 114, 6, 137, 129, 207, 212, 83, 113, 221, 189, 146, 148,
            182, 165, 125, 14, 162, 10, 65, 188>>)
        @@ (<<SHA256, <<97>>, <<37, 74, 111, 148, 185, 222, 3, 40, 77, 114,
            151, 188, 225, 6, 43, 80>>, 120000, 1>> :> <<118, 222, 102, 157,
            173, 186, 49, 122, 138, 230, 253, 3, 230, 234, 132, 135, 113, 180,
            182, 168, 237, 64, 202, 20, 43, 154, 86, 44, 59, 42, 13, 97>>)
        @@ (<<SHA256, <<0, 97>>, <<>>, 120000, 1>> :> <<41, 127, 68, 202, 80,
            12, 45, 89, 105, 13, 118, 95, 136, 213, 185, 70, 12, 238, 45, 183,
            151, 233, 81, 107, 160, 152, 244, 128, 85, 250, 51, 173>>)
        @@ (<<SHA256, <<0, 97>>, <<0>>, 120000, 1>> :> <<75, 13, 130, 143, 64,
            127, 70, 5, 241, 51, 223, 119, 236, 44, 122, 117, 226, 210, 226,
            179, 48, 225, 3, 136, 219, 254, 166, 157, 177, 40, 230, 235>>)
        @@ (<<SHA256, <<0, 97>>, <<0, 0, 0>>, 120000, 1>> :> <<140, 52, 145,
            128, 70, 101, 94, 235, 232, 71, 91, 233, 159, 10, 47, 67, 241, 58,
            95, 65, 112, 191, 95, 63, 229, 52, 37, 222, 84, 80, 200, 224>>)
        @@ (<<SHA256, <<0, 97>>, <<37, 74, 111>>, 120000, 1>> :> <<103, 77,
            91, 225, 28, 116, 186, 124, 235, 27, 55, 186, 231, 172, 174, 77,
            199, 223, 32, 67, 169, 43, 54, 19, 99, 169, 107, 150, 116, 141,
            20, 223>>)
        @@ (<<SHA256, <<0, 97>>, <<0, 0, 0, 0, 0, 0, 0, 0, 0, 0, 0, 0, 0, 0,
            0, 0>>, 120000, 1>> :> <<201, 235, 12, 151, 32, 112, 35, 236, 101,
            192, 230, 237, 115, 54, 21, 105, 145, 54, 6, 238, 21, 217, 193,
            58, 253, 227, 153, 91, 48, 44, 141, 32>>)
        @@ (<<SHA256, <<0, 97>>, <<37, 74, 111, 148, 185, 222, 3, 40, 77, 114,
            151, 188, 225, 6, 43, 80>>, 120000, 1>> :> <<13, 168, 141, 14,
            142, 109, 78, 219, 165, 209, 58, 221, 168, 112, 171, 202, 110, 89,
            193, 200, 210, 49, 66, 148, 196, 90, 84, 38, 98, 18, 108, 196>>)
        @@ (<<SHA256, <<97, 97>>, <<>>, 120000, 1>> :> <<82, 22, 243, 42, 61,
            167, 235, 141, 241, 139, 199, 18, 74, 222, 9, 36, 249, 170, 216,
            246, 151, 117, 121, 31, 179, 105, 11, 190, 24, 149, 221, 187>>)
        @@ (<<SHA256, <<97, 97>>, <<0>>, 120000, 1>> :> <<47, 179, 87, 148,
            95, 54, 159, 71, 127, 26, 36, 59, 219, 131, 208, 141, 76, 108,
            225, 75, 150, 153, 117, 67, 187, 145, 252, 249, 5, 78, 33, 226>>)
        @@ (<<SHA256, <<97, 97>>, <<0, 0, 0>>, 120000, 1>> :> <<161, 91, 65,
            66, 162, 51, 153, 9, 84, 5, 189, 5, 211, 144, 11, 18, 7, 87, 79,
            107, 11, 21, 108, 102, 132, 246, 61, 61, 22, 133, 248, 161>>)
        @@ (<<SHA256, <<97, 97>>, <<37, 74, 111>>, 120000, 1>> :> <<187, 50,
            199, 211, 183, 239, 85, 30, 130, 13, 222, 224, 87, 229, 77, 151,
            170, 146, 81, 20, 161, 182, 212, 202, 167, 208, 176, 143, 199, 12,
            8, 98>>)
        @@ (<<SHA256, <<97, 97>>, <<0, 0, 0, 0, 0, 0, 0, 0, 0, 0, 0, 0, 0, 0,
            0, 0>>, 120000, 1>> :> <<196, 3, 214, 182, 198, 39, 135, 58, 167,
            97, 125, 229, 175, 163, 159, 246, 207, 219, 138, 166, 81, 136,
            203, 16, 153, 38, 104, 186, 47, 83, 247, 109>>)
        @@ (<<SHA256, <<97, 97>>, <<37, 74, 111, 148, 185, 222, 3, 40, 77,
            114, 151, 188, 225, 6, 43, 80>>, 120000, 1>> :> <<219, 97, 150,
            20, 50, 179, 36, 192, 106, 134, 151, 155, 222, 88, 162, 158, 204,
            207, 141, 227, 227, 175, 6, 40, 142, 204, 150, 247, 113, 189, 47,
            213>>)
        @@ (<<SHA256, <<0, 0, 97>>, <<>>, 120000, 1>> :> <<4, 144, 155, 113,
            178, 145, 227, 13, 122, 206, 106, 182, 156, 210, 15, 147, 197, 23,
            112, 6, 152, 77, 80, 175, 78, 150, 49, 86, 31, 103, 244, 221>>)
        @@ (<<SHA256, <<0, 0, 97>>, <<0>>, 120000, 1>> :> <<13, 139, 71, 179,
            131, 200, 229, 95, 94, 204, 213, 2, 69, 0, 157, 125, 228, 224,
            193, 30, 64, 184, 87, 65, 218, 91, 27, 123, 80, 19, 179, 228>>)
        @@ (<<SHA256, <<0, 0, 97>>, <<0, 0, 0>>, 120000, 1>> :> <<167, 66, 66,
            234, 62, 10, 66, 245, 209, 121, 0, 84, 77, 218, 125, 70, 144, 168,
            161, 130, 222, 155, 132, 206, 35, 103, 233, 209, 60, 50, 166,
            192>>)
        @@ (<<SHA256, <<0, 0, 97>>, <<37, 74, 111>>, 120000, 1>> :> <<214, 1,
            220, 247, 245, 35, 197, 182, 37, 187, 7, 96, 177, 171, 239, 173,
            191, 25, 132, 254, 180, 131, 255, 25, 50, 220, 11, 93, 23, 136,
            94, 107>>)
        @@ (<<SHA256, <<0, 0, 97>>, <<0, 0, 0, 0, 0, 0, 0, 0, 0, 0, 0, 0, 0,
            0, 0, 0>>, 120000, 1>> :> <<74, 71, 63, 142, 67, 118, 57, 254, 13,
            62, 197, 108, 7, 59, 107, 38, 106, 218, 229, 241, 127, 252, 44,
            251, 253, 203, 210, 195, 22, 107, 138, 223>>)
        @@ (<<SHA256, <<0, 0, 97>>, <<37, 74, 111, 148, 185, 222, 3, 40, 77,
            114, 151, 188, 225, 6, 43, 80>>, 120000, 1>> :> <<114, 198, 151,
            148, 234, 207, 185, 228, 182, 219, 66, 5, 121, 249, 121, 220, 107,
            183, 17, 17, 82, 155, 216, 145, 238, 255, 125, 151, 213, 78, 188,
            131>>)
        @@ (<<SHA256, <<0, 97, 97>>, <<>>, 120000, 1>> :> <<162, 155, 20, 237,
            51, 154, 174, 168, 232, 83, 47, 81, 189, 123, 130, 194, 10, 39,
            81, 184, 237, 24, 219, 174, 64, 27, 20, 42, 83, 105, 230, 159>>)
        @@ (<<SHA256, <<0, 97, 97>>, <<0>>, 120000, 1>> :> <<42, 210, 5, 173,
            232, 107, 84, 94, 119, 142, 207, 53, 75, 6, 32, 79, 8, 105, 144,
            10, 70, 38, 89, 3, 0, 186, 174, 221, 104, 214, 235, 131>>)
        @@ (<<SHA256, <<0, 97, 97>>, <<0, 0, 0>>, 120000, 1>> :> <<39, 234,
            136, 66, 120, 178, 62, 217, 164, 134, 62, 26, 205, 164, 71, 80,
            51, 147, 13, 119, 148, 171, 170, 238, 64, 203, 114, 77, 227, 77,
            104, 25>>)
        @@ (<<SHA256, <<0, 97, 97>>, <<37, 74, 111>>, 120000, 1>> :> <<240,
            37, 108, 238, 27, 78, 173, 51, 244, 137, 31, 76, 63, 96, 254, 93,
            130, 232, 151, 120, 154, 119, 224, 220, 243, 192, 81, 27, 125,
            144, 5, 216>>)
        @@ (<<SHA256, <<0, 97, 97>>, <<0, 0, 0, 0, 0, 0, 0, 0, 0, 0, 0, 0, 0,
            0, 0, 0>>, 120000, 1>> :> <<118, 43, 159, 4, 101, 180, 140, 89, 6,
            163, 59, 36, 59, 49, 17, 194, 250, 239, 41, 166, 151, 200, 137,
            146, 235, 34, 49, 128, 186, 226, 16, 5>>)
        @@ (<<SHA256, <<0, 97, 97>>, <<37, 74, 111, 148, 185, 222, 3, 40, 77,
            114, 151, 188, 225, 6, 43, 80>>, 120000, 1>> :> <<57, 150, 230,
            171, 131, 64, 236, 131, 175, 179, 163, 163, 250, 1, 94, 114, 110,
            245, 165, 65, 4, 239, 209, 179, 69, 39, 23, 13, 57, 95, 168,
            103>>)
        @@ (<<SHA256, <<97, 0, 97>>, <<>>, 120000, 1>> :> <<253, 88, 32, 177,
            188, 216, 195, 207, 49, 113, 220, 223, 218, 8, 207, 153, 44, 93,
            104, 34, 88, 43, 167, 216, 171, 80, 106, 231, 130, 254, 164,
            220>>)
        @@ (<<SHA256, <<97, 0, 97>>, <<0>>, 120000, 1>> :> <<67, 67, 83, 236,
            83, 110, 107, 113, 157, 119, 164, 134, 67, 50, 75, 132, 77, 191,
            154, 206, 124, 56, 45, 65, 135, 224, 43, 113, 175, 20, 249, 193>>)
        @@ (<<SHA256, <<97, 0, 97>>, <<0, 0, 0>>, 120000, 1>> :> <<122, 188,
            173, 147, 15, 104, 141, 233, 161, 146, 120, 179, 122, 190, 5, 10,
            17, 25, 131, 131, 98, 117, 150, 163, 155, 123, 143, 222, 235, 47,
            144, 41>>)
        @@ (<<SHA256, <<97, 0, 97>>, <<37, 74, 111>>, 120000, 1>> :> <<235,
            173, 169, 70, 215, 169, 240, 4, 188, 91, 254, 155, 60, 74, 192,
            233, 37, 85, 226, 95, 107, 31, 70, 236, 161, 163, 41, 177, 93,
            119, 81, 23>>)
        @@ (<<SHA256, <<97, 0, 97>>, <<0, 0, 0, 0, 0, 0, 0, 0, 0, 0, 0, 0, 0,
            0, 0, 0>>, 120000, 1>> :> <<156, 54, 240, 118, 190, 117, 173, 72,
            145, 123, 218, 1, 121, 205, 231, 172, 98, 202, 191, 153, 36, 156,
            233, 178, 72, 186, 174, 240, 25, 186, 6, 9>>)
        @@ (<<SHA256, <<97, 0, 97>>, <<37, 74, 111, 148, 185, 222, 3, 40, 77,
            114, 151, 188, 225, 6, 43, 80>>, 120000, 1>> :> <<195, 170, 199,
            34, 167, 65, 227, 164, 141, 176, 254, 159, 175, 183, 37, 75, 253,
            113, 64, 255, 119, 96, 245, 219, 112, 198, 37, 20, 183, 193, 81,
            141>>)
        @@ (<<SHA256, <<97, 97, 97>>, <<>>, 120000, 1>> :> <<122, 2, 183, 55,
            126, 76, 160, 204, 190, 238, 20, 145, 63, 72, 116, 160, 62, 246,
            9, 57, 217, 198, 123, 237, 144, 190, 66, 162, 188, 119, 140, 65>>)
        @@ (<<SHA256, <<97, 97, 97>>, <<0>>, 120000, 1>> :> <<193, 142, 172,
            247, 211, 145, 156, 5, 22, 210, 240, 165, 38, 154, 129, 246, 32,
            250, 156, 202, 10, 144, 161, 20, 80, 169, 162, 172, 230, 62, 140,
            103>>)
        @@ (<<SHA256, <<97, 97, 97>>, <<0, 0, 0>>, 120000, 1>> :> <<208, 249,
            163, 8, 3, 121, 42, 189, 245, 195, 39, 160, 233, 241, 108, 170,
            40, 150, 36, 126, 2, 231, 225, 52, 130, 84, 252, 104, 175, 77,
            149, 98>>)
        @@ (<<SHA256, <<97, 97, 97>>, <<37, 74, 111>>, 120000, 1>> :> <<197,
            220, 53, 59, 254, 232, 252, 11, 236, 83, 25, 8, 120, 245, 28, 203,
            30, 126, 41, 162, 159, 64, 154, 149, 219, 185, 164, 119, 78, 202,
            165, 142>>)
        @@ (<<SHA256, <<97, 97, 97>>, <<0, 0, 0, 0, 0, 0, 0, 0, 0, 0, 0, 0, 0,
            0, 0, 0>>, 120000, 1>> :> <<111, 35, 77, 5, 24, 115, 11, 152, 144,
            163, 24, 120, 44, 73, 203, 51, 56, 2, 221, 21, 17, 135, 55, 77,
            114, 83, 72, 36, 241, 38, 188, 4>>)
        @@ (<<SHA256, <<97, 97, 97>>, <<37, 74, 111, 148, 185, 222, 3, 40, 77,
            114, 151, 188, 225, 6, 43, 80>>, 120000, 1>> :> <<97, 132, 44,
            144, 46, 143, 126, 102, 194, 148, 241, 96, 218, 157, 16, 2, 27,
            35, 64, 252, 111, 43, 93, 159, 135, 75, 225, 85, 53, 180, 101,
            28>>)
        @@ (<<SHA256, <<99, 83, 97, 196, 139, 185, 234, 177, 65, 152, 231,
            110, 168, 171, 127, 26, 65, 104, 93, 106, 214, 42, 169, 20, 109,
            48, 29, 79, 23, 235, 10, 224>>, <<>>, 120000, 1>> :> <<121, 47,
            167, 97, 199, 36, 87, 228, 207, 146, 152, 75, 168, 12, 225, 245,
            184, 62, 151, 224, 218, 167, 249, 224, 52, 176, 222, 172, 133, 5,
            103, 81>>)
        @@ (<<SHA256, <<99, 83, 97, 196, 139, 185, 234, 177, 65, 152, 231,
            110, 168, 171, 127, 26, 65, 104, 93, 106, 214, 42, 169, 20, 109,
            48, 29, 79, 23, 235, 10, 224>>, <<0>>, 120000, 1>> :> <<28, 33,
            82, 221, 154, 82, 81, 134, 46, 39, 48, 145, 120, 249, 12, 95, 185,
            37, 90, 49, 59, 237, 225, 56, 9, 230, 235, 59, 130, 196, 115,
            195>>)
        @@ (<<SHA256, <<99, 83, 97, 196, 139, 185, 234, 177, 65, 152, 231,
            110, 168, 171, 127, 26, 65, 104, 93, 106, 214, 42, 169, 20, 109,
            48, 29, 79, 23, 235, 10, 224>>, <<0, 0, 0>>, 120000, 1>> :> <<153,
            99, 230, 50, 227, 207, 17, 172, 190, 133, 236, 90, 77, 155, 10,
            64, 53, 105, 91, 238, 123, 207, 222, 28, 99, 249, 14, 45, 189,
            238, 111, 118>>)
        @@ (<<SHA256, <<99, 83, 97, 196, 139, 185, 234, 177, 65, 152, 231,
            110, 168, 171, 127, 26, 65, 104, 93, 106, 214, 42, 169, 20, 109,
            48, 29, 79, 23, 235, 10, 224>>, <<37, 74, 111>>, 120000, 1>> :>
            <<161, 90, 38, 53, 63, 72, 225, 229, 244, 8, 159, 104, 103, 44,
            128, 228, 199, 210, 177, 104, 61, 28, 164, 27, 186, 246, 129, 90,
            13, 56, 103, 129>>)
        @@ (<<SHA256, <<99, 83, 97, 196, 139, 185, 234, 177, 65, 152, 231,
            110, 168, 171, 127, 26, 65, 104, 93, 106, 214, 42, 169, 20, 109,
            48, 29, 79, 23, 235, 10, 224>>, <<0, 0, 0, 0, 0, 0, 0, 0, 0, 0, 0,
            0, 0, 0, 0, 0>>, 120000, 1>> :> <<246, 30, 14, 91, 146, 11, 18,
            126, 82, 188, 63, 17, 12, 244, 103, 7, 206, 69, 13, 86, 182, 133,
            227, 39, 249, 122, 179, 47, 33, 224, 96, 70>>)
        @@ (<<SHA256, <<99, 83, 97, 196, 139, 185, 234, 177, 65, 152, 231,
            110, 168, 171, 127, 26, 65, 104, 93, 106, 214, 42, 169, 20, 109,
            48, 29, 79, 23, 235, 10, 224>>, <<37, 74, 111, 148, 185, 222, 3,
            40, 77, 114, 151, 188, 225, 6, 43, 80>>, 120000, 1>> :> <<1, 102,
            176, 67, 190, 36, 120, 161, 62, 111, 225, 247, 241, 37, 198, 93,
            185, 51, 102, 254, 66, 115, 25, 111, 229, 190, 32, 196, 137, 70,
            100, 254>>)
    )
    \* sha256.New, 120000 rounds, block 2
    @@ (
           (<<SHA256, <<>>, <<>>, 120000, 2>> :> <<6, 239, 217, 207, 99, 217,
            102, 239, 176, 21, 184, 24, 131, 146, 150, 41, 47, 175, 143, 16,
            126, 16, 18, 154, 50, 36, 238, 220, 210, 119, 198, 8>>)
        @@ (<<SHA256, <<>>, <<0>>, 120000, 2>> :> <<232, 43, 42, 96, 132, 19,
            62, 14, 33, 94, 110, 79, 180, 76, 6, 45, 206, 20, 144, 51, 110, 6,
            31, 60, 23, 153, 244, 250, 212, 28, 103, 134>>)
        @@ (<<SHA256, <<>>, <<0, 0, 0>>, 120000, 2>> :> <<141, 48, 114, 175,
            69, 200, 192, 219, 38, 161, 189, 233, 210, 108, 66, 78, 183, 120,
            232, 28, 145, 73, 2, 227, 178, 17, 105, 173, 23, 106, 36, 214>>)
        @@ (<<SHA256, <<>>, <<37, 74, 111>>, 120000, 2>> :> <<196, 157, 115,
            191, 198, 169, 248, 109, 54, 116, 155, 189, 175, 22, 201, 250,
            174, 203, 204, 244, 138, 170, 117, 140, 78, 191, 59, 47, 216, 172,
            135, 22>>)
        @@ (<<SHA256, <<>>, <<0, 0, 0, 0, 0, 0, 0, 0, 0, 0, 0, 0, 0, 0, 0,
            0>>, 120000, 2>> :> <<106, 72, 32, 197, 94, 54, 59, 14, 251, 227,
            76, 13, 241, 172, 135, 247, 99, 67, 210, 185, 44, 85, 33, 212, 74,
            228, 126, 69, 68, 22, 90, 38>>)
        @@ (<<SHA256, <<>>, <<37, 74, 111, 148, 185, 222, 3, 40, 77, 114, 151,
            188, 225, 6, 43, 80>>, 120000, 2>> :> <<69, 3, 3, 90, 105, 59,
            152, 43, 33, 239, 92, 208, 243, 136, 250, 234, 227, 115, 241, 12,
            208, 237, 5, 66, 9, 189, 136, 77, 240, 29, 11, 14>>)
        @@ (<<SHA256, <<97>>, <<>>, 120000, 2>> :> <<68, 84, 143, 137, 75, 6,
            205, 10, 56, 167, 152, 205, 58, 149, 8, 175, 113, 249, 140, 78, 0,
            93, 71, 41, 70, 240, 161, 179, 36, 55, 226, 213>>)
        @@ (<<SHA256, <<97>>, <<0>>, 120000, 2>> :> <<55, 118, 105, 126, 38,
            152, 186, 14, 190, 84, 69, 73, 218, 241, 95, 155, 101, 49, 103,
            119, 239, 188, 114, 73, 38, 154, 224, 245, 114, 71, 249, 173>>)
        @@ (<<SHA256, <<97>>, <<0, 0, 0>>, 120000, 2>> :> <<195, 196, 50, 92,
            93, 168, 9, 210, 79, 37, 205, 40, 101, 106, 14, 148, 158, 13, 58,
            238, 28, 137, 216, 23, 140, 251, 101, 229, 204, 102, 94, 205>>)
        @@ (<<SHA256, <<97>>, <<37, 74, 111>>, 120000, 2>> :> <<67, 42, 73,
            162, 197, 159, 13, 190, 146, 193, 139, 60, 211, 118, 57, 93, 14,
            199, 131, 162, 227, 220, 31, 111, 16, 234, 68, 192, 6, 138, 8,
            143>>)
        @@ (<<SHA256, <<97>>, <<0, 0, 0, 0, 0, 0, 0, 0, 0, 0, 0, 0, 0, 0, 0,
            0>>, 120000, 2>> :> <<188, 119, 206, 81, 205, 18, 139, 33, 189,
            119, 207, 254, 251, 179, 116, 202, 3, 33, 188, 143, 157, 94, 242,
            88, 176, 128, 148, 76, 110, 76, 50, 184>>)
        @@ (<<SHA256, <<97>>, <<37, 74, 111, 148, 185, 222, 3, 40, 77, 114,
            151, 188, 225, 6, 43, 80>>, 120000, 2>> :> <<93, 219, 201, 149,
            245, 58, 58, 8, 93, 36, 16, 32, 245, 43, 194, 31, 241, 143, 81,
            218, 227, 253, 120, 167, 128, 155, 188, 184, 38, 47, 109, 37>>)
        @@ (<<SHA256, <<0, 97>>, <<>>, 120000, 2>> :> <<140, 68, 37, 45, 47,
            101, 115, 80, 206, 2, 231, 50, 179, 207, 21, 149, 37, 178, 81,
            144, 152, 117, 151, 128, 16, 66, 205, 186, 190, 76, 155, 181>>)
        @@ (<<SHA256, <<0, 97>>, <<0>>, 120000, 2>> :> <<228, 70, 64, 232, 3,
            60, 105, 114, 148, 65, 32, 196, 98, 96, 51, 40, 105, 193, 156, 35,
            18, 40, 74, 85, 122, 55, 146, 235, 251, 103, 178, 7>>)
        @@ (<<SHA256, <<0, 97>>, <<0, 0, 0>>, 120000, 2>> :> <<253, 230, 123,
            209, 254, 169, 13, 101, 32, 190, 198, 153, 47, 30, 60, 234, 156,
            96, 139, 160, 148, 2, 238, 81, 249, 169, 124, 85, 178, 88, 36,
            17>>)
        @@ (<<SHA256, <<0, 97>>, <<37, 74, 111>>, 120000, 2>> :> <<54, 39, 82,
            46, 223, 103, 139, 110, 101, 31, 109, 173, 120, 32, 190, 221, 224,
            238, 59, 6, 105, 9, 71, 168, 155, 104, 40, 68, 77, 184, 146,
            102>>)
        @@ (<<SHA256, <<0, 97>>, <<0, 0, 0, 0, 0, 0, 0, 0, 0, 0, 0, 0, 0, 0,
            0, 0>>, 120000, 2>> :> <<90, 105, 72, 242, 99, 253, 63, 156, 92,
            0, 38, 109, 18, 38, 122, 72, 45, 148, 114, 101, 205, 192, 255,
            227, 7, 185, 0, 240, 182, 120, 37, 222>>)
        @@ (<<SHA256, <<0, 97>>, <<37, 74, 111, 148, 185, 222, 3, 40, 77, 114,
            151, 188, 225, 6, 43, 80>>, 120000, 2>> :> <<2, 32, 76, 205, 1,
            164, 72, 179, 136, 241, 111, 115, 167, 194, 63, 206, 136, 23, 175,
            233, 182, 253, 184, 34, 37, 110, 75, 83, 13, 0, 203, 169>>)
        @@ (<<SHA256, <<97, 97>>, <<>>, 120000, 2>> :> <<22, 131, 61, 132,
            167, 239, 113, 3, 178, 144, 240, 237, 166, 218, 194, 191, 172,
            119, 80, 133, 193, 120, 80, 78, 226, 247, 214, 215, 22, 25, 193,
            103>>)
        @@ (<<SHA256, <<97, 97>>, <<0>>, 120000, 2>> :> <<6, 212, 154, 164,
            82, 65, 229, 156, 138, 91, 7, 155, 178, 179, 250, 40, 241, 218,
            233, 69, 177, 166, 182, 51, 4, 218, 119, 54, 95, 2, 228, 159>>)
        @@ (<<SHA256, <<97, 97>>, <<0, 0, 0>>, 120000, 2>> :> <<219, 7, 70,
            184, 50, 253, 31, 44, 233, 46, 180, 66, 90, 110, 192, 187, 62, 7,
            54, 71, 148, 93, 84, 212, 202, 9, 219, 139, 136, 141, 89, 234>>)
        @@ (<<SHA256, <<97, 97>>, <<37, 74, 111>>, 120000, 2>> :> <<166, 159,
            246, 19, 191, 149, 70, 190, 253, 78, 249, 71, 252, 104, 234, 250,
            49, 177, 35, 146, 246, 232, 223, 125, 30, 3, 34, 79, 13, 208, 79,
            23>>)
        @@ (<<SHA256, <<97, 97>>, <<0, 0, 0, 0, 0, 0, 0, 0, 0, 0, 0, 0, 0, 0,
            0, 0>>, 120000, 2>> :> <<185, 60, 50, 226, 1, 135, 71, 203, 84,
            167, 41, 149, 17, 27, 227, 189, 195, 68, 175, 151, 230, 198, 70,
            106, 183, 223, 20, 88, 182, 208, 81, 189>>)
        @@ (<<SHA256, <<97, 97>>, <<37, 74, 111, 148, 185, 222, 3, 40, 77,
            114, 151, 188, 225, 6, 43, 80>>, 120000, 2>> :> <<22, 189, 188,
            26, 17, 43, 189, 206, 180, 232, 230, 42, 28, 224, 187, 138, 27,
            250, 102, 176, 108, 172, 159, 133, 199, 195, 223, 6, 138, 63, 188,
            79>>)
        @@ (<<SHA256, <<0, 0, 97>>, <<>>, 120000, 2>> :> <<183, 233, 137, 108,
            33, 40, 176, 252, 50, 131, 244, 253, 30, 102, 134, 227, 71, 189,
            59, 134, 78, 63, 63, 139, 130, 33, 7, 87, 185, 223, 211, 118>>)
        @@ (<<SHA256, <<0, 0, 97>>, <<0>>, 120000, 2>> :> <<17, 80, 141, 115,
            100, 113, 131, 11, 189, 14, 63, 227, 182, 65, 144, 205, 205, 136,
            124, 91, 170, 29, 22, 67, 158, 169, 70, 97, 71, 95, 83, 75>>)
        @@ (<<SHA256, <<0, 0, 97>>, <<0, 0, 0>>, 120000, 2>> :> <<161, 152,
            140, 158, 80, 10, 12, 165, 102, 150, 214, 92, 83, 89, 159, 254,
            140, 18, 146, 247, 41, 78, 183, 50, 54, 73, 8, 212, 109, 69, 35,
            167>>)
        @@ (<<SHA256, <<0, 0, 97>>, <<37, 74, 111>>, 120000, 2>> :> <<234,
            148, 135, 125, 128, 34, 164, 214, 174, 84, 3, 111, 150, 176, 175,
            151, 39, 68, 178, 22, 142, 29, 173, 209, 149, 223, 158, 231, 63,
            251, 69, 126>>)
        @@ (<<SHA256, <<0, 0, 97>>, <<0, 0, 0, 0, 0, 0, 0, 0, 0, 0, 0, 0, 0,
            0, 0, 0>>, 120000, 2>> :> <<147, 216, 57, 162, 176, 53, 15, 71,
            24, 159, 181, 166, 14, 248, 252, 208, 114, 156, 149, 231, 6, 52,
            229, 93, 57, 209, 20, 122, 194, 249, 160, 128>>)
        @@ (<<SHA256, <<0, 0, 97>>, <<37, 74, 111, 148, 185, 222, 3, 40, 77,
            114, 151, 188, 225, 6, 43, 80>>, 120000, 2>> :> <<249, 194, 47,
            84, 164, 64, 196, 82, 196, 14, 106, 64, 17, 241, 7, 55, 199, 220,
            215, 252, 222, 168, 74, 214, 249, 84, 42, 236, 193, 89, 30, 51>>)
        @@ (<<SHA256, <<0, 97, 97>>, <<>>, 120000, 2>> :> <<203, 37, 100, 216,
            185, 0, 166, 255, 140, 69, 127, 176, 144, 113, 149, 232, 22, 126,
            33, 213, 217, 49, 229, 153, 114, 83, 56, 240, 255, 201, 84, 69>>)
        @@ (<<SHA256, <<0, 97, 97>>, <<0>>, 120000, 2>> :> <<196, 198, 185,
            240, 241, 95, 89, 112, 35, 23, 68, 250, 252, 141, 68, 162, 55,
            229, 86, 6, 68, 224, 44, 253, 221, 183, 59, 214, 122, 138, 108,
            171>>)
        @@ (<<SHA256, <<0, 97, 97>>, <<0, 0, 0>>, 120000, 2>> :> <<131, 71,
            208, 117, 87, 247, 14, 197, 27, 147, 38, 123, 248, 108, 99, 104,
            80, 198, 57, 88, 108, 44, 247, 196, 196, 63, 38, 102, 248, 167,
            182, 225>>)
        @@ (<<SHA256, <<0, 97, 97>>, <<37, 74, 111>>, 120000, 2>> :> <<45, 25,
            157, 97, 21, 19, 14, 222, 141, 67, 178, 119, 47, 246, 207, 127,
            251, 187, 101, 218, 221, 47, 190, 85, 198, 125, 118, 231, 133, 68,
            34, 71>>)
        @@ (<<SHA256, <<0, 97, 97>>, <<0, 0, 0, 0, 0, 0, 0, 0, 0, 0, 0, 0, 0,
            0, 0, 0>>, 120000, 2>> :> <<108, 133, 40, 167, 76, 220, 73, 149,
            196, 33, 218, 252, 128, 8, 39, 35, 38, 46, 142, 147, 99, 226, 242,
            209, 11, 93, 92, 64, 77, 16, 163, 10>>)
        @@ (<<SHA256, <<0, 97, 97>>, <<37, 74, 111, 148, 185, 222, 3, 40, 77,
            114, 151, 188, 225, 6, 43, 80>>, 120000, 2>> :> <<232, 20, 134,
            95, 170, 146, 212, 37, 39, 237, 109, 196, 143, 150, 173, 124, 14,
            108, 70, 245, 39, 193, 142, 209, 57, 89, 250, 28, 105, 31, 24,
            192>>)
        @@ (<<SHA256, <<97, 0, 97>>, <<>>, 120000, 2>> :> <<239, 22, 238, 237,
            241, 135, 189, 106, 180, 44, 157, 187, 82, 229, 124, 89, 41, 75,
            112, 68, 240, 161, 15, 52, 102, 210, 33, 121, 89, 203, 227, 195>>)
        @@ (<<SHA256, <<97, 0, 97>>, <<0>>, 120000, 2>> :> <<45, 32, 63, 177,
            37, 141, 234, 211, 183, 147, 134, 195, 149, 20, 51, 177, 6, 244,
            139, 81, 194, 85, 241, 76, 22, 110, 238, 40, 51, 172, 78, 111>>)
        @@ (<<SHA256, <<97, 0, 97>>, <<0, 0, 0>>, 120000, 2>> :> <<2, 143,
            172, 176, 147, 152, 134, 140, 46, 150, 0, 17, 17, 170, 182, 242,
            237, 187, 233, 168, 212, 233, 193, 25, 160, 61, 111, 28, 149, 228,
            127, 119>>)
        @@ (<<SHA256, <<97, 0, 97>>, <<37, 74, 111>>, 120000, 2>> :> <<2, 219,
            204, 231, 104, 147, 222, 201, 210, 165, 92, 247, 106, 55, 240,
            104, 240, 151, 132, 241, 247, 78, 129, 147, 5, 85, 140, 11, 33,
            149, 186, 218>>)
        @@ (<<SHA256, <<97, 0, 97>>, <<0, 0, 0, 0, 0, 0, 0, 0, 0, 0, 0, 0, 0,
            0, 0, 0>>, 120000, 2>> :> <<249, 211, 83, 32, 31, 113, 218, 85, 7,
            174, 162, 222, 119, 76, 51, 74, 51, 5, 68, 21, 156, 143, 81, 28,
            156, 158, 65, 172, 51, 64, 80, 33>>)
        @@ (<<SHA256, <<97, 0, 97>>, <<37, 74, 111, 148, 185, 222, 3, 40, 77,
            114, 151, 188, 225, 6, 43, 80>>, 120000, 2>> :> <<166, 56, 111,
            26, 183, 53, 161, 216, 32, 196, 153, 61, 193, 148, 202, 191, 137,
            62, 29, 231, 158, 99, 116, 221, 183, 169, 24, 199, 223, 77, 13,
            203>>)
        @@ (<<SHA256, <<97, 97, 97>>, <<>>, 120000, 2>> :> <<254, 202, 175,
            198, 161, 92, 37, 33, 192, 236, 57, 61, 255, 48, 4, 167, 186, 152,
            31, 145, 13, 140, 58, 121, 66, 223, 161, 155, 92, 166, 210, 56>>)
        @@ (<<SHA256, <<97, 97, 97>>, <<0>>, 120000, 2>> :> <<154, 99, 114,
            37, 236, 6, 110, 244, 7, 221, 242, 131, 168, 91, 47, 239, 217, 13,
            146, 157, 148, 68, 86, 47, 157, 9, 179, 203, 114, 170, 110, 21>>)
        @@ (<<SHA256, <<97, 97, 97>>, <<0, 0, 0>>, 120000, 2>> :> <<78, 251,
            4, 109, 165, 253, 97, 155, 55, 206, 168, 165, 163, 9, 0, 90, 188,
            16, 121, 218, 19, 65, 160, 232, 37, 13, 145, 54, 121, 100, 165,
            217>>)
        @@ (<<SHA256, <<97, 97, 97>>, <<37, 74, 111>>, 120000, 2>> :> <<1,
            237, 109, 103, 245, 139, 113, 51, 175, 20, 215, 30, 1, 215, 37,
            129, 109, 131, 232, 1, 97, 73, 124, 18, 108, 80, 255, 85, 143,
            178, 93, 155>>)
        @@ (<<SHA256, <<97, 97, 97>>, <<0, 0, 0, 0, 0, 0, 0, 0, 0, 0, 0, 0, 0,
            0, 0, 0>>, 120000, 2>> :> <<14, 26, 119, 163, 118, 3, 238, 205,
            114, 36, 197, 193, 245, 48, 21, 223, 47, 165, 236, 75, 148, 246,
            17, 95, 221, 237, 193, 161, 106, 87, 3, 189>>)
        @@ (<<SHA256, <<97, 97, 97>>, <<37, 74, 111, 148, 185, 222, 3, 40, 77,
            114, 151, 188, 225, 6, 43, 80>>, 120000, 2>> :> <<132, 187, 183,
            67, 29, 62, 141, 22, 80, 17, 148, 172, 107, 10, 8, 195, 118, 241,
            25, 27, 201, 33, 135, 119, 132, 32, 225, 38, 23, 19, 64, 190>>)
        @@ (<<SHA256, <<99, 83, 97, 196, 139, 185, 234, 177, 65, 152, 231,
            110, 168, 171, 127, 26, 65, 104, 93, 106, 214, 42, 169, 20, 109,
            48, 29, 79, 23, 235, 10, 224>>, <<>>, 120000, 2>> :> <<101, 4,
            172, 167, 33, 215, 36, 88, 236, 61, 47, 195, 36, 190, 247, 230,
            27, 102, 237, 27, 88, 69, 167, 26, 101, 65, 142, 242, 180, 162,
            71, 166>>)
        @@ (<<SHA256, <<99, 83, 97, 196, 139, 185, 234, 177, 65, 152, 231,
            110, 168, 171, 127, 26, 65, 104, 93, 106, 214, 42, 169, 20, 109,
            48, 29, 79, 23, 235, 10, 224>>, <<0>>, 120000, 2>> :> <<218, 88,
            81, 235, 103, 68, 9, 172, 245, 251, 204, 149, 187, 39, 77, 223,
            222, 17, 36, 34, 164, 80, 40, 64, 42, 162, 91, 239, 199, 31, 75,
            63>>)
        @@ (<<SHA256, <<99, 83, 97, 196, 139, 185, 234, 177, 65, 152, 231,
            110, 168, 171, 127, 26, 65, 104, 93, 106, 214, 42, 169, 20, 109,
            48, 29, 79, 23, 235, 10, 224>>, <<0, 0, 0>>, 120000, 2>> :> <<37,
            87, 235, 148, 69, 158, 36, 148, 219, 245, 148, 185, 84, 43, 130,
            183, 163, 68, 253, 139, 70, 114, 78, 204, 151, 230, 243, 250, 13,
            170, 115, 216>>)
        @@ (<<SHA256, <<99, 83, 97, 196, 139, 185, 234, 177, 65, 152, 231,
            110, 168, 171, 127, 26, 65, 104, 93, 106, 214, 42, 169, 20, 109,
            48, 29, 79, 23, 235, 10, 224>>, <<37, 74, 111>>, 120000, 2>> :>
            <<51, 37, 103, 142, 53, 3, 163, 26, 249, 96, 165, 244, 188, 220,
            138, 87, 104, 79, 0, 68, 208, 193, 34, 23, 45, 44, 249, 218, 71,
            192, 5, 52>>)
        @@ (<<SHA256, <<99, 83, 97, 196, 139, 185, 234, 177, 65, 152, 231,
            110, 168, 171, 127, 26, 65, 104, 93, 106, 214, 42, 169, 20, 109,
            48, 29, 79, 23, 235, 10, 224>>, <<0, 0, 0, 0, 0, 0, 0, 0, 0, 0, 0,
            0, 0, 0, 0, 0>>, 120000, 2>> :> <<58, 222, 110, 101, 58, 170, 17,
            37, 10, 59, 123, 41, 29, 180, 156, 91, 67, 173, 108, 116, 27, 92,
            12, 212, 55, 146, 223, 162, 168, 135, 13, 191>>)
        @@ (<<SHA256, <<99, 83, 97, 196, 139, 185, 234, 177, 65, 152, 231,
            110, 168, 171, 127, 26, 65, 104, 93, 106, 214, 42, 169, 20, 109,
            48, 29, 79, 23, 235, 10, 224>>, <<37, 74, 111, 148, 185, 222, 3,
            40, 77, 114, 151, 188, 225, 6, 43, 80>>, 120000, 2>> :> <<117, 44,
            158, 115, 160, 23, 188, 218, 161, 195, 169, 73, 14, 249, 201, 154,
            158, 90, 2, 155, 61, 2, 75, 254, 176, 211, 244, 13, 178, 104, 145,
            61>>)
    )
    \* sha512.New, 1 round, block 1
    @@ (
           (<<SHA512, <<>>, <<>>, 1, 1>> :> <<109, 46, 203, 187, 251, 46, 109,
            205, 112, 86, 250, 249, 175, 106, 160, 110, 174, 89, 67, 145, 219,
            152, 50, 121, 166, 191, 39, 224, 235, 34, 134, 20, 58, 176, 201,
            150, 243, 60, 164, 182, 103, 233, 69, 130, 158, 166, 147, 52, 15,
            40, 49, 121, 115, 36, 229, 243, 29, 241, 142, 209, 113, 209, 140,
            151>>)
        @@ (<<SHA512, <<>>, <<0>>, 1, 1>> :> <<175, 24, 176, 219, 238, 170, 9,
            38, 216, 127, 131, 10, 219, 238, 23, 103, 233, 215, 157, 48, 176,
            11, 86, 104, 59, 211, 156, 227, 187, 87, 24, 232, 249, 208, 244,
            247, 247, 216, 123, 243, 136, 30, 149, 229, 196, 248, 1, 129, 142,
            142, 58, 111, 229, 134, 69, 88, 58, 31, 70, 74, 26, 16, 43, 253>>)
        @@ (<<SHA512, <<>>, <<0, 0, 0>>, 1, 1>> :> <<66, 145, 3, 214, 131, 27,
            109, 251, 73, 223, 169, 111, 218, 204, 130, 249, 251, 225, 137,
            138, 45, 53, 145, 80, 219, 139, 125, 151, 213, 96, 112, 199, 26,
            113, 68, 236, 249, 176, 149, 197, 109, 129, 177, 252, 24, 37, 140,
            120, 25, 49, 113, 150, 52, 31, 121, 19, 165, 197, 39, 111, 38,
            184, 37, 227>>)
        @@ (<<SHA512, <<>>, <<37, 74, 111>>, 1, 1>> :> <<85, 103, 82, 171,
            170, 235, 135, 69, 239, 191, 249, 136, 61, 50, 116, 204, 181, 189,
            104, 63, 59, 223, 214, 92, 27, 75, 93, 220, 203, 239, 86, 120,
            255, 242, 84, 14, 68, 87, 185, 23, 196, 144, 245, 173, 144, 32,
            220, 249, 120, 63, 149, 181, 92, 189, 253, 88, 78, 191, 204, 180,
            53, 57, 153, 104>>)
        @@ (<<SHA512, <<>>, <<0, 0, 0, 0, 0, 0, 0, 0, 0, 0, 0, 0, 0, 0, 0,
            0>>, 1, 1>> :> <<65, 160, 100, 0, 65, 74, 155, 113, 151, 49, 191,
            113, 160, 62, 117, 170, 213, 177, 38, 236, 39, 248, 253, 208, 133,
            251, 67, 75, 199, 24, 113, 14, 51, 236, 98, 220, 57, 5, 209, 161,
            250, 91, 180, 203, 51, 147, 63, 13, 15, 122, 1, 138, 175, 17, 184,
            64, 120, 249, 62, 221, 156, 53, 29, 95>>)
        @@ (<<SHA512, <<>>, <<37, 74, 111, 148, 185, 222, 3, 40, 77, 114, 151,
            188, 225, 6, 43, 80>>, 1, 1>> :> <<216, 164, 81, 202, 235, 255,
            98, 159, 128, 212, 228, 210, 177, 108, 126, 96, 67, 41, 237, 85,
            147, 83, 247, 117, 91, 117, 38, 2, 59, 92, 34, 69, 75, 124, 206,
            145, 36, 251, 127, 46, 19, 252, 158, 137, 122, 59, 184, 89, 206,
            119, 107, 181, 39, 3, 76, 55, 160, 147, 12, 79, 182, 41, 40,
            221>>)
        @@ (<<SHA512, <<97>>, <<>>, 1, 1>> :> <<164, 57, 8, 219, 191, 41, 91,
            157, 71, 212, 79, 100, 63, 101, 73, 228, 35, 230, 24, 55, 177,
            244, 206, 95, 238, 163, 170, 13, 21, 17, 123, 17, 214, 245, 93,
            28, 210, 93, 100, 54, 145, 38, 43, 87, 226, 26, 107, 230, 8, 66,
            136, 198, 240, 60, 53, 62, 248, 128, 166, 164, 46, 61, 158, 172>>)
        @@ (<<SHA512, <<97>>, <<0>>, 1, 1>> :> <<168, 127, 138, 164, 43, 7,
            121, 44, 238, 211, 62, 121, 226, 252, 132, 89, 254, 137, 19, 189,
            226, 88, 194, 166, 246, 211, 215, 27, 160, 184, 194, 141, 110, 20,
            204, 76, 201, 178, 169, 221, 236, 158, 26, 138, 114, 38, 62, 206,
            138, 86, 156, 236, 239, 89, 135, 188, 148, 219, 130, 125, 68, 244,
            16, 96>>)
        @@ (<<SHA512, <<97>>, <<0, 0, 0>>, 1, 1>> :> <<57, 31, 73, 97, 46,
            123, 31, 208, 244, 90, 124, 46, 229, 220, 86, 75, 69, 105, 30,
            239, 151, 119, 202, 138, 21, 111, 184, 42, 30, 164, 186, 78, 100,
            36, 215, 41, 243, 92, 145, 96, 204, 79, 93, 134, 45, 122, 68, 177,
            232, 101, 27, 122, 224, 130, 238, 72, 223, 49, 209, 225, 162, 140,
            127, 0>>)
        @@ (<<SHA512, <<97>>, <<37, 74, 111>>, 1, 1>> :> <<152, 181, 168, 110,
            35, 198, 194, 225, 91, 74, 89, 236, 35, 55, 39, 99, 211, 245, 94,
            102, 65, 41, 234, 152, 122, 214, 219, 157, 163, 86, 1, 251, 112,
            250, 245, 221, 51, 41, 128, 38, 114, 243, 149, 202, 170, 230, 25,
            3, 129, 18, 131, 72, 74, 101, 230, 7, 183, 96, 190, 222, 176, 200,
            117, 245>>)
        @@ (<<SHA512, <<97>>, <<0, 0, 0, 0, 0, 0, 0, 0, 0, 0, 0, 0, 0, 0, 0,
            0>>, 1, 1>> :> <<26, 97, 191, 92, 23, 88, 227, 108, 219, 23, 159,
            250, 27, 31, 177, 187, 172, 246, 239, 241, 94, 170, 53, 178, 207,
            187, 175, 123, 226, 73, 253, 81, 8, 222, 45, 4, 40, 107, 172, 247,
            147, 39, 164, 186, 16, 135, 141, 251, 185, 201, 248, 195, 79, 30,
            102, 209, 166, 128, 32, 181, 148, 142, 147, 39>>)
        @@ (<<SHA512, <<97>>, <<37, 74, 111, 148, 185, 222, 3, 40, 77, 114,
            151, 188, 225, 6, 43, 80>>, 1, 1>> :> <<88, 219, 242, 151, 253,
            79, 39, 20, 50, 87, 3, 124, 68, 211, 239, 48, 2, 93, 184, 193,
            228, 2, 35, 2, 87, 222, 15, 204, 151, 195, 26, 254, 252, 25, 165,
            61, 146, 63, 253, 242, 165, 78, 123, 248, 180, 92, 82, 126, 192,
            104, 42, 213, 41, 197, 254, 159, 200, 213, 81, 228, 128, 241, 155,
            41>>)
        @@ (<<SHA512, <<0, 97>>, <<>>, 1, 1>> :> <<212, 42, 95, 77, 67, 181,
            185, 193, 4, 6, 90, 241, 4, 98, 171, 18, 207, 254, 246, 227, 136,
            21, 240, 21, 54, 17, 186, 201, 112, 25, 192, 91, 106, 163, 110,
            112, 179, 205, 57, 149, 111, 175, 168, 9, 181, 85, 196, 53, 17,
            95, 109, 237, 60, 77, 161, 161, 125, 14, 52, 214, 149, 80, 164,
            89>>)
        @@ (<<SHA512, <<0, 97>>, <<0>>, 1, 1>> :> <<33, 54, 194, 139, 174,
            227, 45, 52, 189, 233, 238, 222, 186, 115, 124, 15, 72, 178, 182,
            153, 210, 194, 127, 136, 69, 17, 75, 95, 39, 161, 147, 157, 144,
            138, 30, 22, 165, 49, 229, 211, 235, 46, 204, 15, 173, 157, 120,
            101, 47, 105, 121, 220, 245, 167, 64, 255, 47, 190, 219, 202, 201,
            155, 225, 168>>)
        @@ (<<SHA512, <<0, 97>>, <<0, 0, 0>>, 1, 1>> :> <<28, 126, 223, 97,
            44, 176, 62, 236, 227, 176, 255, 191, 2, 255, 162, 11, 116, 173,
            235, 61, 30, 246, 80, 47, 121, 200, 41, 208, 35, 41, 80, 103, 32,
            27, 159, 106, 52, 107, 57, 180, 163, 71, 75, 5, 104, 61, 26, 240,
            94, 200, 33, 114, 26, 86, 207, 132, 21, 75, 232, 208, 4, 109, 221,
            134>>)
        @@ (<<SHA512, <<0, 97>>, <<37, 74, 111>>, 1, 1>> :> <<9, 172, 47, 28,
            8, 181, 57, 88, 76, 251, 42, 55, 42, 219, 245, 207, 32, 135, 71,
            8, 189, 74, 232, 102, 203, 45, 229, 159, 94, 150, 156, 29, 250,
            191, 24, 46, 185, 139, 18, 191, 56, 49, 5, 82, 215, 252, 98, 242,
            128, 79, 87, 57, 196, 205, 103, 206, 32, 102, 18, 220, 74, 10,
            148, 240>>)
        @@ (<<SHA512, <<0, 97>>, <<0, 0, 0, 0, 0, 0, 0, 0, 0, 0, 0, 0, 0, 0,
            0, 0>>, 1, 1>> :> <<244, 22, 93, 55, 187, 129, 14, 132, 157, 95,
            81, 126, 133, 21, 207, 184, 101, 104, 240, 166, 131, 207, 157, 18,
            112, 254, 218, 166, 131, 231, 139, 194, 98, 69, 136, 90, 42, 131,
            192, 10, 190, 163, 14, 161, 116, 99, 101, 129, 223, 28, 17, 158,
            51, 74, 203, 224, 211, 155, 247, 71, 100, 174, 48, 117>>)
        @@ (<<SHA512, <<0, 97>>, <<37, 74, 111, 148, 185, 222, 3, 40, 77, 114,
            151, 188, 225, 6, 43, 80>>, 1, 1>> :> <<53, 105, 18, 41, 25, 146,
            138, 6, 235, 255, 169, 53, 33, 135, 194, 233, 78, 180, 220, 177,
            80, 247, 6, 93, 149, 151, 215, 75, 248, 9, 4, 213, 124, 24, 98,
            87, 177, 60, 219, 5, 214, 107, 63, 46, 153, 134, 205, 117, 180,
            244, 119, 5, 160, 203, 73, 46, 148, 226, 231, 49, 155, 252, 206,
            114>>)
        @@ (<<SHA512, <<97, 97>>, <<>>, 1, 1>> :> <<194, 155, 107, 49, 115,
            59, 21, 227, 2, 177, 189, 123, 208, 143, 202, 60, 168, 170, 57,
            80, 57, 227, 82, 25, 72, 30, 239, 12, 90, 198, 152, 56, 158, 145,
            88, 150, 48, 131, 139, 249, 29, 128, 23, 201, 100, 125, 142, 5,
            23, 9, 147, 58, 42, 50, 228, 158, 222, 159, 233, 239, 223, 133,
            215, 134>>)
        @@ (<<SHA512, <<97, 97>>, <<0>>, 1, 1>> :> <<46, 77, 87, 237, 85, 150,
            116, 203, 180, 171, 14, 24, 253, 94, 184, 131, 165, 25, 137, 226,
            175, 26, 234, 221, 73, 32, 31, 233, 147, 251, 216, 200, 95, 139,
            219, 44, 227, 125, 88, 102, 127, 251, 144, 200, 225, 38, 99, 41,
            9, 92, 209, 49, 7, 13, 16, 202, 23, 200, 24, 208, 201, 150, 103,
            123>>)
        @@ (<<SHA512, <<97, 97>>, <<0, 0, 0>>, 1, 1>> :> <<38, 74, 61, 6, 246,
            26, 0, 81, 102, 208, 109, 226, 173, 8, 149, 5, 242, 138, 149, 111,
            140, 107, 245, 156, 208, 248, 252, 110, 160, 60, 194, 173, 249,
            11, 223, 179, 108, 15, 180, 110, 109, 183, 134, 213, 218, 114,
            246, 165, 180, 19, 173, 227, 253, 218, 183, 216, 118, 91, 231,
            180, 127, 198, 168, 24>>)
        @@ (<<SHA512, <<97, 97>>, <<37, 74, 111>>, 1, 1>> :> <<29, 31, 161,
            196, 79, 93, 12, 96, 40, 133, 64, 171, 116, 133, 221, 72, 23, 239,
            131, 49, 227, 42, 231, 38, 66, 215, 170, 195, 67, 115, 54, 159,
            226, 11, 12, 251, 142, 218, 246, 37, 170, 198, 238, 28, 250, 220,
            22, 64, 186, 204, 115, 245, 214, 189, 15, 209, 58, 191, 177, 74,
            182, 156, 34, 249>>)
        @@ (<<SHA512, <<97, 97>>, <<0, 0, 0, 0, 0, 0, 0, 0, 0, 0, 0, 0, 0, 0,
            0, 0>>, 1, 1>> :> <<146, 145, 94, 37, 223, 73, 107, 159, 175, 246,
            78, 89, 186, 104, 80, 18, 165, 151, 225, 115, 150, 81, 202, 83,
            155, 162, 251, 137, 181, 67, 44, 71, 195, 253, 212, 87, 61, 108,
            26, 221, 22, 199, 178, 211, 198, 147, 0, 46, 180, 3, 213, 52, 124,
            159, 76, 47, 71, 76, 55, 68, 171, 116, 239, 239>>)
        @@ (<<SHA512, <<97, 97>>, <<37, 74, 111, 148, 185, 222, 3, 40, 77,
            114, 151, 188, 225, 6, 43, 80>>, 1, 1>> :> <<58, 101, 60, 72, 71,
            200, 235, 170, 241, 123, 125, 188, 49, 212, 122, 249, 70, 177,
            222, 73, 69, 192, 152, 145, 176, 74, 236, 164, 253, 215, 79, 40,
            155, 86, 109, 234, 46, 104, 31, 91, 250, 248, 7, 35, 152, 51, 69,
            1, 13, 157, 116, 197, 231, 236, 209, 193, 9, 229, 120, 66, 59, 92,
            98, 184>>)
        @@ (<<SHA512, <<0, 0, 97>>, <<>>, 1, 1>> :> <<59, 221, 145, 215, 209,
            9, 232, 233, 81, 214, 159, 112, 7, 123, 244, 33, 223, 179, 53,
            204, 234, 92, 112, 149, 134, 206, 220, 114, 75, 141, 37, 156, 101,
            207, 119, 241, 203, 63, 245, 220, 73, 8, 82, 34, 254, 150, 146,
            107, 192, 30, 177, 102, 39, 223, 164, 84, 222, 185, 21, 242, 58,
            210, 153, 246>>)
        @@ (<<SHA512, <<0, 0, 97>>, <<0>>, 1, 1>> :> <<157, 6, 103, 250, 81,
            116, 189, 163, 59, 27, 79, 152, 237, 175, 43, 35, 85, 56, 67, 253,
            123, 201, 99, 254, 84, 15, 189, 199, 88, 222, 134, 213, 241, 253,
            14, 152, 202, 254, 24, 39, 140, 151, 237, 112, 208, 242, 102, 206,
            18, 54, 254, 59, 224, 5, 20, 108, 79, 195, 172, 73, 57, 179, 150,
            143>>)
        @@ (<<SHA512, <<0, 0, 97>>, <<0, 0, 0>>, 1, 1>> :> <<34, 153, 67, 184,
            105, 185, 61, 155, 143, 255, 174, 70, 11, 195, 229, 152, 166, 178,
            231, 51, 203, 187, 114, 237, 111, 37, 181, 104, 244, 71, 72, 65,
            129, 68, 116, 39, 164, 200, 118, 144, 82, 250, 2, 99, 202, 96,
            137, 150, 13, 120, 8, 90, 241, 101, 227, 73, 12, 168, 76, 135, 92,
            198, 238, 42>>)
        @@ (<<SHA512, <<0, 0, 97>>, <<37, 74, 111>>, 1, 1>> :> <<197, 200, 94,
            198, 77, 45, 228, 143, 83, 49, 146, 99, 130, 177, 185, 6, 221, 19,
            196, 152, 221, 148, 76, 189, 254, 80, 53, 228, 62, 122, 35, 24,
            65, 124, 189, 246, 200, 41, 182, 77, 13, 49, 225, 16, 94, 153,
            245, 246, 63, 241, 115, 250, 163, 174, 180, 45, 56, 251, 243, 12,
            217, 254, 23, 107>>)
        @@ (<<SHA512, <<0, 0, 97>>, <<0, 0, 0, 0, 0, 0, 0, 0, 0, 0, 0, 0, 0,
            0, 0, 0>>, 1, 1>> :> <<82, 155, 92, 128, 174, 92, 209, 132, 98,
            60, 25, 52, 223, 189, 23, 5, 16, 152, 148, 91, 103, 157, 180, 234,
            214, 44, 64, 144, 62, 38, 25, 247, 72, 210, 5, 2, 126, 162, 103,
            220, 6, 23, 171, 205, 30, 129, 220, 41, 160, 101, 197, 225, 82,
            36, 194, 31, 73, 23, 58, 7, 171, 7, 6, 202>>)
        @@ (<<SHA512, <<0, 0, 97>>, <<37, 74, 111, 148, 185, 222, 3, 40, 77,
            114, 151, 188, 225, 6, 43, 80>>, 1, 1>> :> <<232, 185, 186, 94, 1,
            220, 151, 92, 146, 36, 114, 106, 17, 61, 187, 209, 183, 242, 149,
            178, 101, 120, 202, 135, 141, 9, 22, 143, 215, 183, 198, 207, 96,
            161, 196, 13, 225, 61, 36, 234, 125, 211, 207, 116, 9, 128, 14,
            20, 79, 172, 57, 50, 208, 58, 130, 199, 125, 240, 164, 244, 68,
            227, 216, 64>>)
        @@ (<<SHA512, <<0, 97, 97>>, <<>>, 1, 1>> :> <<129, 35, 148, 139, 8,
            107, 252, 82, 243, 218, 242, 144, 162, 21, 4, 191, 151, 175, 18,
            70, 126, 253, 134, 204, 41, 103, 18, 184, 150, 125, 26, 131, 255,
            252, 224, 7, 169, 172, 227, 69, 240, 50, 255, 43, 150, 8, 35, 112,
            36, 212, 178, 80, 116, 115, 221, 43, 201, 147, 70, 58, 198, 229,
            241, 78>>)
        @@ (<<SHA512, <<0, 97, 97>>, <<0>>, 1, 1>> :> <<114, 234, 26, 81, 24,
            145, 176, 197, 136, 161, 63, 239, 7, 157, 48, 37, 81, 141, 186,
            218, 26, 109, 127, 170, 11, 238, 235, 56, 225, 46, 161, 42, 63,
            132, 54, 59, 29, 27, 217, 94, 55, 110, 126, 139, 116, 91, 124,
            246, 201, 83, 190, 32, 170, 1, 19, 61, 240, 43, 180, 211, 53, 155,
            184, 221>>)
        @@ (<<SHA512, <<0, 97, 97>>, <<0, 0, 0>>, 1, 1>> :> <<161, 232, 143,
            210, 16, 176, 2, 155, 175, 211, 237, 139, 55, 240, 233, 135, 152,
            191, 238, 40, 235, 64, 135, 25, 115, 43, 246, 63, 187, 62, 46, 44,
            101, 234, 185, 172, 110, 197, 113, 107, 27, 235, 162, 4, 18, 217,
            202, 117, 46, 252, 75, 251, 133, 72, 51, 182, 44, 124, 41, 47,
            234, 143, 164, 68>>)
        @@ (<<SHA512, <<0, 97, 97>>, <<37, 74, 111>>, 1, 1>> :> <<159, 226,
            184, 102, 20, 152, 220, 209, 200, 252, 9, 79, 224, 200, 93, 249,
            213, 47, 173, 20, 42, 96, 136, 11, 197, 21, 113, 3, 65, 30, 38,
            156, 168, 131, 198, 223, 110, 207, 151, 157, 224, 82, 48, 110,
            179, 197, 98, 31, 68, 100, 236, 41, 33, 114, 3, 186, 107, 148,
            203, 99, 43, 135, 138, 99>>)
        @@ (<<SHA512, <<0, 97, 97>>, <<0, 0, 0, 0, 0, 0, 0, 0, 0, 0, 0, 0, 0,
            0, 0, 0>>, 1, 1>> :> <<34, 132, 13, 153, 242, 170, 183, 53, 118,
            196, 91, 25, 11, 85, 240, 162, 153, 128, 206, 120, 170, 137, 26,
            169, 200, 246, 30, 218, 77, 208, 220, 10, 174, 83, 18, 163, 168,
            247, 41, 166, 198, 227, 38, 36, 72, 186, 71, 15, 158, 53, 204, 72,
            249, 113, 118, 89, 47, 41, 250, 216, 22, 156, 85, 237>>)
        @@ (<<SHA512, <<0, 97, 97>>, <<37, 74, 111, 148, 185, 222, 3, 40, 77,
            114, 151, 188, 225, 6, 43, 80>>, 1, 1>> :> <<130, 198, 29, 198,
            88, 111, 131, 221, 106, 63, 67, 213, 173, 107, 45, 182, 17, 23,
            222, 240, 144, 59, 82, 34, 5, 36, 74, 206, 55, 76, 25, 5, 206,
            130, 188, 75, 198, 107, 99, 247, 173, 128, 245, 84, 228, 103, 72,
            194, 76, 221, 235, 242, 186, 213, 128, 135, 13, 35, 42, 101, 124,
            80, 71, 180>>)
        @@ (<<SHA512, <<97, 0, 97>>, <<>>, 1, 1>> :> <<114, 87, 127, 194, 112,
            92, 78, 142, 249, 200, 105, 232, 46, 185, 130, 20, 230, 218, 26,
            222, 118, 219, 255, 120, 106, 2, 233, 242, 176, 219, 19, 249, 55,
            174, 79, 79, 139, 10, 4, 155, 33, 185, 55, 53, 33, 29, 45, 1, 213,
            97, 78, 200, 113, 207, 253, 164, 113, 27, 179, 243, 149, 29, 73,
            152>>)
        @@ (<<SHA512, <<97, 0, 97>>, <<0>>, 1, 1>> :> <<227, 178, 231, 152,
            110, 2, 225, 152, 65, 13, 133, 248, 154, 38, 77, 203, 21, 216,
            246, 97, 243, 98, 162, 44, 191, 58, 51, 37, 16, 186, 57, 122, 167,
            109, 104, 71, 172, 168, 57, 199, 230, 45, 147, 74, 104, 116, 248,
            68, 244, 121, 136, 152, 181, 180, 7, 142, 108, 211, 190, 219, 134,
            103, 132, 227>>)
        @@ (<<SHA512, <<97, 0, 97>>, <<0, 0, 0>>, 1, 1>> :> <<71, 125, 13,
            120, 133, 102, 6, 108, 127, 2, 160, 160, 71, 163, 149, 140, 133,
            228, 200, 243, 188, 141, 212, 20, 97, 95, 198, 13, 156, 245, 77,
            85, 60, 216, 29, 113, 223, 202, 13, 195, 236, 20, 0, 221, 87, 59,
            183, 72, 34, 243, 0, 192, 165, 67, 36, 232, 163, 166, 14, 140, 70,
            27, 127, 152>>)
        @@ (<<SHA512, <<97, 0, 97>>, <<37, 74, 111>>, 1, 1>> :> <<42, 37, 8,
            174, 225, 199, 9, 179, 20, 223, 245, 249, 10, 234, 165, 150, 212,
            152, 177, 239, 102, 13, 156, 55, 84, 255, 33, 224, 5, 123, 213,
            190, 198, 191, 99, 57, 23, 128, 35, 51, 21, 179, 156, 56, 32, 22,
            2, 8, 201, 87, 185, 162, 73, 238, 211, 217, 210, 42, 58, 159, 87,
            241, 151, 143>>)
        @@ (<<SHA512, <<97, 0, 97>>, <<0, 0, 0, 0, 0, 0, 0, 0, 0, 0, 0, 0, 0,
            0, 0, 0>>, 1, 1>> :> <<143, 21, 118, 11, 62, 216, 216, 18, 222,
            87, 67, 232, 195, 12, 170, 82, 191, 68, 22, 169, 243, 238, 123,
            71, 74, 34, 213, 120, 162, 21, 141, 7, 142, 120, 242, 185, 18,
            216, 191, 79, 106, 147, 35, 243, 190, 138, 224, 107, 245, 73, 17,
            228, 145, 181, 141, 120, 132, 146, 7, 157, 170, 218, 52, 69>>)
        @@ (<<SHA512, <<97, 0, 97>>, <<37, 74, 111, 148, 185, 222, 3, 40, 77,
            114, 151, 188, 225, 6, 43, 80>>, 1, 1>> :> <<122, 228, 202, 142,
            46, 91, 18, 13, 136, 19, 197, 29, 158, 162, 208, 245, 16, 246,
            138, 194, 193, 197, 35, 227, 79, 198, 217, 12, 128, 182, 239, 108,
            75, 28, 210, 242, 95, 131, 44, 153, 0, 105, 131, 118, 178, 211,
            42, 24, 27, 200, 10, 186, 179, 133, 136, 90, 186, 114, 209, 64,
            51, 44, 20, 157>>)
        @@ (<<SHA512, <<97, 97, 97>>, <<>>, 1, 1>> :> <<212, 38, 230, 45, 131,
            9, 143, 82, 188, 52, 9, 65, 182, 197, 35, 176, 239, 138, 171, 16,
            55, 5, 75, 63, 134, 232, 153, 35, 245, 230, 49, 41, 148, 52, 97,
            212, 18, 209, 60, 150, 0, 86, 124, 108, 211, 190, 197, 94, 110,
            91, 35, 75, 229, 185, 84, 168, 162, 180, 192, 198, 252, 118, 146,
            84>>)
        @@ (<<SHA512, <<97, 97, 97>>, <<0>>, 1, 1>> :> <<236, 68, 101, 56, 79,
            66, 127, 21, 222, 80, 126, 190, 65, 153, 231, 211, 159, 77, 31,
            34, 125, 43, 93, 155, 184, 106, 243, 235, 19, 14, 173, 87, 207,
            212, 107, 78, 6, 71, 126, 2, 65, 80, 178, 71, 93, 10, 50, 167,
            224, 71, 68, 241, 113, 162, 241, 37, 95, 68, 222, 5, 26, 113, 235,
            140>>)
        @@ (<<SHA512, <<97, 97, 97>>, <<0, 0, 0>>, 1, 1>> :> <<248, 15, 54,
            57, 53, 109, 130, 31, 195, 151, 177, 251, 21, 138, 226, 207, 108,
            248, 36, 71, 35, 12, 220, 0, 252, 74, 71, 181, 27, 19, 227, 109,
            10, 131, 45, 182, 41, 1, 92, 191, 234, 92, 229, 4, 229, 202, 34,
            100, 11, 150, 41, 214, 159, 246, 126, 74, 124, 102, 6, 3, 50, 60,
            236, 35>>)
        @@ (<<SHA512, <<97, 97, 97>>, <<37, 74, 111>>, 1, 1>> :> <<226, 245,
            149, 89, 199, 89, 93, 2, 243, 143, 192, 18, 85, 20, 77, 12, 14,
            210, 95, 207, 21, 97, 97, 175, 98, 226, 117, 123, 208, 250, 70,
            207, 167, 73, 159, 45, 90, 228, 5, 32, 61, 113, 236, 171, 190,
            229, 142, 230, 84, 96, 117, 76, 219, 83, 232, 202, 248, 37, 172,
            97, 47, 1, 151, 157>>)
        @@ (<<SHA512, <<97, 97, 97>>, <<0, 0, 0, 0, 0, 0, 0, 0, 0, 0, 0, 0, 0,
            0, 0, 0>>, 1, 1>> :> <<231, 100, 79, 82, 125, 107, 50, 11, 151,
            33, 121, 223, 136, 154, 232, 11, 226, 121, 174, 25, 21, 83, 173,
            17, 98, 54, 94, 177, 143, 248, 189, 203, 20, 102, 154, 57, 22,
            125, 248, 76, 43, 157, 77, 45, 72, 248, 41, 95, 45, 74, 120, 195,
            30, 162, 89, 101, 201, 18, 134, 154, 140, 141, 227, 32>>)
        @@ (<<SHA512, <<97, 97, 97>>, <<37, 74, 111, 148, 185, 222, 3, 40, 77,
            114, 151, 188, 225, 6, 43, 80>>, 1, 1>> :> <<50, 29, 38, 185, 242,
            146, 120, 39, 198, 98, 1, 19, 11, 203, 181, 125, 10, 66, 202, 128,
            245, 179, 184, 122, 155, 65, 34, 177, 96, 155, 179, 71, 30, 98,
            122, 147, 106, 0, 24, 98, 131, 8, 2, 193, 189, 48, 47, 151, 253,
            144, 239, 172, 115, 60, 39, 76, 57, 205, 79, 87, 244, 101, 181,
            118>>)
        @@ (<<SHA512, <<97, 97, 97, 97, 97, 97, 97, 97, 97, 97, 97, 97, 97,
            97, 97, 97, 97, 97, 97, 97, 97, 97, 97, 97, 97, 97, 97, 97, 97,
            97, 97, 97, 97, 97, 97, 97, 97, 97, 97, 97, 97, 97, 97, 97, 97,
            97, 97, 97, 97, 97, 97, 97, 97, 97, 97, 97, 97, 97, 97, 97, 97,
            97, 97, 97, 97>>, <<>>, 1, 1>> :> <<155, 177, 251, 252, 15, 69,
            160, 183, 191, 90, 197, 235, 31, 175, 51, 43, 40, 187, 82, 86,
            200, 207, 255, 8, 101, 30, 104, 101, 108, 6, 247, 38, 108, 116,
            107, 65, 175, 147, 203, 107, 203, 174, 210, 152, 24, 159, 147,
            206, 39, 2, 13, 162, 46, 130, 222, 241, 202, 254, 24, 111, 18, 94,
            189, 215>>)
        @@ (<<SHA512, <<97, 97, 97, 97, 97, 97, 97, 97, 97, 97, 97, 97, 97,
            97, 97, 97, 97, 97, 97, 97, 97, 97, 97, 97, 97, 97, 97, 97, 97,
            97, 97, 97, 97, 97, 97, 97, 97, 97, 97, 97, 97, 97, 97, 97, 97,
            97, 97, 97, 97, 97, 97, 97, 97, 97, 97, 97, 97, 97, 97, 97, 97,
            97, 97, 97, 97>>, <<0>>, 1, 1>> :> <<43, 200, 115, 135, 146, 47,
            146, 199, 193, 137, 54, 155, 224, 197, 52, 168, 235, 206, 221,
            193, 0, 159, 25, 242, 163, 103, 199, 179, 80, 50, 204, 140, 92,
            70, 128, 149, 202, 137, 245, 207, 52, 96, 28, 26, 226, 252, 107,
            154, 246, 8, 43, 223, 254, 152, 122, 52, 156, 246, 55, 113, 251,
            252, 238, 149>>)
        @@ (<<SHA512, <<97, 97, 97, 97, 97, 97, 97, 97, 97, 97, 97, 97, 97,
            97, 97, 97, 97, 97, 97, 97, 97, 97, 97, 97, 97, 97, 97, 97, 97,
            97, 97, 97, 97, 97, 97, 97, 97, 97, 97, 97, 97, 97, 97, 97, 97,
            97, 97, 97, 97, 97, 97, 97, 97, 97, 97, 97, 97, 97, 97, 97, 97,
            97, 97, 97, 97>>, <<0, 0, 0>>, 1, 1>> :> <<68, 163, 123, 81, 3,
            51, 149, 42, 120, 122, 113, 204, 100, 74, 136, 237, 95, 143, 137,
            40, 221, 138, 199, 208, 39, 83, 119, 191, 146, 108, 249, 27, 110,
            159, 162, 111, 126, 83, 55, 139, 55, 191, 213, 73, 236, 37, 222,
            254, 202, 230, 134, 150, 19, 107, 29, 109, 150, 212, 110, 157,
            115, 107, 191, 114>>)
        @@ (<<SHA512, <<97, 97, 97, 97, 97, 97, 97, 97, 97, 97, 97, 97, 97,
            97, 97, 97, 97, 97, 97, 97, 97, 97, 97, 97, 97, 97, 97, 97, 97,
            97, 97, 97, 97, 97, 97, 97, 97, 97, 97, 97, 97, 97, 97, 97, 97,
            97, 97, 97, 97, 97, 97, 97, 97, 97, 97, 97, 97, 97, 97, 97, 97,
            97, 97, 97, 97>>, <<37, 74, 111>>, 1, 1>> :> <<89, 15, 72, 113,
            145, 217, 247, 18, 229, 97, 20, 130, 128, 249, 26, 170, 72, 202,
            99, 185, 252, 152, 120, 170, 211, 206, 226, 206, 55, 57, 52, 166,
            192, 254, 121, 201, 192, 89, 30, 152, 12, 219, 108, 251, 155, 52,
            224, 32, 59, 101, 84, 115, 4, 165, 186, 172, 199, 152, 2, 113, 10,
            110, 58, 57>>)
        @@ (<<SHA512, <<97, 97, 97, 97, 97, 97, 97, 97, 97, 97, 97, 97, 97,
            97, 97, 97, 97, 97, 97, 97, 97, 97, 97, 97, 97, 97, 97, 97, 97,
            97, 97, 97, 97, 97, 97, 97, 97, 97, 97, 97, 97, 97, 97, 97, 97,
            97, 97, 97, 97, 97, 97, 97, 97, 97, 97, 97, 97, 97, 97, 97, 97,
            97, 97, 97, 97>>, <<0, 0, 0, 0, 0, 0, 0, 0, 0, 0, 0, 0, 0, 0, 0,
            0>>, 1, 1>> :> <<208, 129, 202, 44, 17, 131, 225, 123, 187, 132,
            156, 189, 86, 64, 190, 24, 83, 3, 135, 161, 247, 191, 185, 20, 15,
            96, 18, 72, 35, 5, 64, 73, 247, 10, 211, 69, 234, 153, 192, 147,
            201, 138, 199, 127, 61, 3, 40, 210, 118, 253, 113, 159, 150, 58,
            143, 160, 2, 160, 249, 160, 168, 9, 3, 27>>)
        @@ (<<SHA512, <<97, 97, 97, 97, 97, 97, 97, 97, 97, 97, 97, 97, 97,
            97, 97, 97, 97, 97, 97, 97, 97, 97, 97, 97, 97, 97, 97, 97, 97,
            97, 97, 97, 97, 97, 97, 97, 97, 97, 97, 97, 97, 97, 97, 97, 97,
            97, 97, 97, 97, 97, 97, 97, 97, 97, 97, 97, 97, 97, 97, 97, 97,
            97, 97, 97, 97>>, <<37, 74, 111, 148, 185, 222, 3, 40, 77, 114,
            151, 188, 225, 6, 43, 80>>, 1, 1>> :> <<148, 60, 77, 83, 211, 214,
            21, 219, 128, 185, 74, 191, 55, 246, 11, 52, 39, 238, 137, 241,
            19, 198, 223, 221, 87, 38, 176, 89, 20, 98, 127, 220, 214, 38, 25,
            98, 140, 49, 134, 213, 35, 115, 179, 72, 44, 118, 104, 253, 216,
            186, 12, 210, 43, 187, 240, 101, 173, 154, 169, 192, 60, 47, 18,
            229>>)
    )
    \* sha512.New, 2 rounds, block 1
    @@ (
           (<<SHA512, <<>>, <<>>, 2, 1>> :> <<164, 34, 102, 63, 218, 134, 9,
            161, 226, 253, 83, 84, 18, 96, 237, 248, 134, 236, 99, 102, 5,
            129, 76, 46, 23, 180, 199, 141, 143, 158, 35, 50, 102, 242, 35,
            246, 92, 178, 183, 68, 11, 18, 192, 153, 206, 26, 163, 39, 158,
            41, 170, 132, 142, 41, 130, 81, 3, 210, 188, 90, 95, 79, 74,
            211>>)
        @@ (<<SHA512, <<>>, <<0>>, 2, 1>> :> <<57, 95, 90, 132, 140, 91, 226,
            245, 22, 240, 30, 185, 92, 47, 69, 97, 168, 63, 9, 206, 234, 69,
            62, 176, 216, 133, 186, 180, 222, 177, 36, 252, 222, 115, 232,
            232, 230, 102, 206, 142, 120, 210, 88, 198, 59, 249, 200, 93, 186,
            167, 61, 113, 206, 230, 212, 106, 100, 240, 107, 174, 180, 58, 95,
            220>>)
        @@ (<<SHA512, <<>>, <<0, 0, 0>>, 2, 1>> :> <<154, 213, 122, 62, 255,
            252, 43, 139, 201, 230, 144, 98, 70, 195, 237, 242, 127, 144, 73,
            60, 130, 191, 169, 12, 104, 163, 16, 193, 176, 247, 155, 201, 109,
            85, 167, 78, 193, 194, 5, 47, 142, 8, 78, 185, 222, 12, 91, 99,
            207, 198, 136, 151, 160, 79, 96, 232, 146, 75, 124, 170, 209, 198,
            78, 46>>)
        @@ (<<SHA512, <<>>, <<37, 74, 111>>, 2, 1>> :> <<48, 151, 213, 51,
            156, 121, 191, 115, 114, 116, 150, 158, 84, 84, 143, 25, 21, 149,
            82, 97, 127, 135, 206, 233, 5, 120, 59, 138, 25, 143, 142, 207,
            140, 238, 136, 180, 249, 187, 235, 211, 54, 165, 109, 193, 229,
            129, 134, 6, 107, 64, 181, 219, 156, 111, 136, 98, 151, 129, 211,
            245, 125, 166, 139, 82>>)
        @@ (<<SHA512, <<>>, <<0, 0, 0, 0, 0, 0, 0, 0, 0, 0, 0, 0, 0, 0, 0,
            0>>, 2, 1>> :> <<67, 206, 127, 71, 225, 233, 112, 37, 67, 208,
            196, 211, 245, 222, 79, 189, 102, 50, 104, 211, 118, 203, 158, 19,
            236, 212, 42, 35, 57, 253, 37, 39, 46, 223, 73, 166, 223, 92, 134,
            177, 141, 205, 26, 39, 202, 171, 153, 101, 202, 249, 161, 82, 221,
            148, 44, 63, 133, 105, 149, 73, 250, 182, 29, 123>>)
        @@ (<<SHA512, <<>>, <<37, 74, 111, 148, 185, 222, 3, 40, 77, 114, 151,
            188, 225, 6, 43, 80>>, 2, 1>> :> <<199, 233, 227, 146, 185, 31,
            54, 139, 12, 249, 188, 72, 206, 42, 73, 205, 218, 182, 188, 248,
            165, 5, 130, 124, 64, 255, 96, 197, 132, 209, 181, 242, 90, 154,
            191, 15, 157, 250, 176, 87, 166, 53, 118, 7, 72, 75, 205, 164,
            248, 104, 130, 34, 76, 128, 45, 127, 210, 63, 177, 234, 143, 14,
            144, 99>>)
        @@ (<<SHA512, <<97>>, <<>>, 2, 1>> :> <<2, 255, 147, 127, 76, 113,
            161, 204, 62, 78, 47, 239, 28, 200, 231, 185, 195, 11, 251, 37, 1,
            60, 116, 140, 69, 249, 43, 211, 235, 173, 34, 170, 114, 227, 242,
            217, 131, 234, 110, 35, 142, 77, 22, 22, 174, 225, 183, 4, 93,
            207, 49, 158, 191, 4, 54, 223, 219, 242, 68, 208, 230, 97, 160,
            138>>)
        @@ (<<SHA512, <<97>>, <<0>>, 2, 1>> :> <<87, 70, 25, 141, 75, 102, 37,
            186, 187, 254, 16, 196, 104, 143, 87, 121, 176, 247, 1, 116, 157,
            97, 134, 230, 91, 138, 66, 178, 49, 137, 8, 60, 255, 171, 74, 21,
            151, 92, 250, 25, 190, 160, 231, 10, 108, 126, 80, 18, 11, 113, 7,
            216, 68, 26, 52, 155, 4, 34, 41, 30, 192, 64, 36, 53>>)
        @@ (<<SHA512, <<97>>, <<0, 0, 0>>, 2, 1>> :> <<100, 213, 174, 51, 224,
            71, 99, 90, 84, 80, 122, 250, 118, 7, 114, 254, 75, 86, 229, 252,
            192, 152, 194, 161, 251, 53, 72, 174, 215, 22, 222, 244, 88, 38,
            102, 226, 223, 95, 91, 147, 100, 45, 175, 250, 26, 75, 246, 210,
            5, 224, 224, 169, 139, 7, 179, 106, 115, 8, 136, 187, 61, 214,
            236, 226>>)
        @@ (<<SHA512, <<97>>, <<37, 74, 111>>, 2, 1>> :> <<111, 214, 142, 219,
            250, 95, 146, 24, 58, 121, 135, 32, 232, 243, 187, 5, 170, 205,
            172, 141, 105, 82, 56, 216, 82, 252, 57, 57, 202, 247, 9, 47, 156,
            144, 203, 57, 97, 4, 167, 82, 228, 246, 216, 67, 171, 99, 223, 61,
            211, 57, 93, 204, 186, 36, 102, 217, 246, 114, 241, 29, 73, 152,
            133, 240>>)
        @@ (<<SHA512, <<97>>, <<0, 0, 0, 0, 0, 0, 0, 0, 0, 0, 0, 0, 0, 0, 0,
            0>>, 2, 1>> :> <<48, 2, 188, 91, 99, 73, 170, 146, 29, 44, 222,
            158, 19, 204, 68, 115, 151, 133, 126, 130, 175, 187, 208, 238,
            218, 158, 221, 195, 188, 216, 104, 161, 161, 65, 127, 69, 116,
            162, 140, 183, 78, 242, 218, 195, 124, 94, 98, 22, 143, 58, 113,
            220, 151, 147, 145, 231, 255, 43, 102, 79, 182, 47, 190, 235>>)
        @@ (<<SHA512, <<97>>, <<37, 74, 111, 148, 185, 222, 3, 40, 77, 114,
            151, 188, 225, 6, 43, 80>>, 2, 1>> :> <<240, 234, 197, 74, 253,
            10, 169, 142, 39, 218, 105, 66, 189, 108, 14, 5, 210, 20, 5, 227,
            215, 252, 12, 31, 101, 95, 226, 144, 237, 53, 233, 124, 47, 206,
            108, 14, 186, 198, 25, 64, 193, 41, 97, 115, 33, 129, 187, 250,
            131, 86, 151, 135, 50, 103, 113, 242, 26, 21, 66, 72, 159, 67,
            109, 104>>)
        @@ (<<SHA512, <<0, 97>>, <<>>, 2, 1>> :> <<91, 247, 62, 34, 58, 243,
            3, 44, 250, 196, 36, 30, 175, 230, 226, 15, 41, 222, 192, 91, 245,
            216, 189, 108, 85, 65, 159, 70, 226, 71, 145, 26, 7, 218, 195,
            217, 166, 174, 196, 234, 81, 52, 129, 238, 20, 216, 165, 102, 60,
            27, 211, 229, 127, 139, 0, 32, 93, 113, 249, 102, 247, 156, 251,
            191>>)
        @@ (<<SHA512, <<0, 97>>, <<0>>, 2, 1>> :> <<209, 78, 46, 243, 83, 46,
            137, 89, 85, 223, 3, 235, 90, 33, 166, 98, 113, 99, 153, 76, 29,
            203, 83, 245, 97, 104, 245, 6, 2, 132, 161, 146, 25, 23, 19, 201,
            65, 117, 214, 25, 209, 194, 12, 137, 36, 155, 185, 119, 16, 189,
            62, 185, 229, 207, 100, 179, 175, 201, 11, 165, 242, 118, 26,
            137>>)
        @@ (<<SHA512, <<0, 97>>, <<0, 0, 0>>, 2, 1>> :> <<215, 17, 195, 76,
            103, 214, 52, 49, 239, 118, 23, 236, 255, 107, 252, 25, 70, 88,
            116, 183, 62, 34, 181, 215, 91, 137, 54, 130, 244, 98, 102, 129,
            24, 174, 203, 44, 94, 182, 177, 179, 4, 77, 31, 163, 205, 229, 0,
            126, 125, 253, 42, 242, 36, 148, 47, 29, 225, 51, 32, 91, 44, 156,
            228, 233>>)
        @@ (<<SHA512, <<0, 97>>, <<37, 74, 111>>, 2, 1>> :> <<251, 89, 74,
            212, 173, 138, 88, 225, 241, 38, 193, 71, 233, 251, 154, 160, 202,
            29, 179, 160, 184, 62, 34, 98, 94, 94, 14, 193, 97, 18, 195, 76,
            43, 163, 208, 49, 22, 1, 146, 56, 160, 145, 111, 59, 129, 62, 199,
            139, 54, 133, 75, 163, 116, 128, 187, 176, 106, 42, 170, 81, 110,
            67, 2, 117>>)
        @@ (<<SHA512, <<0, 97>>, <<0, 0, 0, 0, 0, 0, 0, 0, 0, 0, 0, 0, 0, 0,
            0, 0>>, 2, 1>> :> <<89, 83, 160, 82, 190, 241, 216, 112, 173, 81,
            104, 63, 37, 145, 224, 202, 91, 103, 243, 177, 131, 55, 247, 29,
            239, 111, 82, 11, 248, 54, 39, 185, 59, 65, 217, 158, 88, 135,
            235, 245, 136, 205, 18, 189, 206, 182, 176, 222, 174, 127, 222,
            179, 13, 200, 253, 234, 115, 4, 2, 0, 41, 28, 196, 130>>)
        @@ (<<SHA512, <<0, 97>>, <<37, 74, 111, 148, 185, 222, 3, 40, 77, 114,
            151, 188, 225, 6, 43, 80>>, 2, 1>> :> <<67, 221, 33, 176, 66, 241,
            169, 138, 249, 118, 244, 85, 200, 234, 30, 72, 124, 187, 183, 131,
            154, 223, 183, 130, 38, 216, 239, 200, 126, 230, 43, 208, 104,
            103, 215, 215, 20, 137, 53, 124, 211, 95, 119, 194, 91, 67, 105,
            189, 28, 107, 234, 70, 178, 58, 231, 81, 113, 31, 28, 135, 58, 23,
            133, 242>>)
        @@ (<<SHA512, <<97, 97>>, <<>>, 2, 1>> :> <<215, 53, 220, 189, 56,
            186, 108, 11, 116, 253, 194, 69, 106, 193, 249, 131, 90, 244, 94,
            190, 41, 180, 214, 204, 51, 181, 169, 231, 203, 202, 151, 221, 47,
            119, 11, 106, 84, 60, 193, 161, 1, 88, 212, 53, 18, 245, 155, 202,
            49, 26, 126, 33, 48, 225, 81, 201, 67, 225, 164, 140, 169, 88,
            109, 168>>)
        @@ (<<SHA512, <<97, 97>>, <<0>>, 2, 1>> :> <<33, 123, 205, 9, 157,
            230, 235, 3, 74, 35, 152, 27, 166, 126, 191, 13, 70, 88, 218, 41,
            193, 168, 207, 184, 247, 126, 219, 77, 23, 190, 188, 219, 101, 26,
            250, 81, 250, 170, 131, 134, 172, 110, 174, 92, 168, 119, 134,
            237, 34, 61, 39, 88, 105, 160, 161, 99, 131, 0, 45, 64, 158, 74,
            135, 147>>)
        @@ (<<SHA512, <<97, 97>>, <<0, 0, 0>>, 2, 1>> :> <<173, 93, 52, 7,
            235, 72, 44, 56, 209, 81, 100, 68, 114, 117, 21, 109, 174, 86, 91,
            24, 159, 70, 80, 224, 82, 134, 245, 40, 117, 106, 174, 83, 98,
            202, 131, 26, 29, 189, 112, 80, 33, 92, 57, 93, 244, 121, 154,
            152, 135, 183, 138, 241, 134, 55, 161, 62, 120, 61, 180, 21, 87,
            75, 130, 111>>)
        @@ (<<SHA512, <<97, 97>>, <<37, 74, 111>>, 2, 1>> :> <<95, 226, 51,
            175, 69, 48, 175, 47, 11, 198, 45, 118, 98, 69, 239, 95, 28, 71,
            92, 188, 76, 112, 183, 140, 209, 106, 92, 89, 82, 48, 82, 229, 5,
            134, 243, 55, 206, 210, 118, 130, 161, 112, 172, 16, 94, 240, 177,
            209, 41, 183, 202, 76, 54, 185, 215, 145, 127, 48, 115, 16, 137,
            158, 66, 248>>)
        @@ (<<SHA512, <<97, 97>>, <<0, 0, 0, 0, 0, 0, 0, 0, 0, 0, 0, 0, 0, 0,
            0, 0>>, 2, 1>> :> <<87, 223, 230, 155, 78, 10, 218, 191, 16, 19,
            32, 244, 104, 182, 169, 215, 62, 237, 144, 24, 20, 111, 45, 217,
            60, 8, 146, 167, 118, 145, 91, 7, 74, 106, 37, 53, 255, 24, 99,
            189, 247, 168, 41, 40, 199, 71, 232, 136, 186, 220, 101, 72, 107,
            225, 149, 62, 167, 78, 9, 204, 212, 224, 242, 193>>)
        @@ (<<SHA512, <<97, 97>>, <<37, 74, 111, 148, 185, 222, 3, 40, 77,
            114, 151, 188, 225, 6, 43, 80>>, 2, 1>> :> <<94, 100, 243, 225,
            237, 164, 129, 65, 235, 82, 113, 24, 66, 121, 32, 186, 200, 166,
            234, 7, 139, 170, 174, 8, 127, 138, 190, 77, 123, 153, 127, 244,
            104, 175, 204, 245, 56, 31, 47, 99, 26, 91, 77, 234, 31, 10, 28,
            235, 105, 48, 151, 116, 167, 1, 17, 210, 247, 182, 88, 135, 180,
            161, 163, 158>>)
        @@ (<<SHA512, <<0, 0, 97>>, <<>>, 2, 1>> :> <<193, 86, 119, 61, 202,
            102, 47, 164, 67, 29, 7, 1, 157, 221, 111, 194, 68, 195, 78, 212,
            173, 251, 107, 215, 44, 160, 10, 161, 223, 40, 193, 105, 105, 243,
            242, 237, 131, 72, 254, 40, 114, 28, 236, 220, 119, 254, 241, 10,
            186, 61, 51, 23, 159, 19, 81, 253, 41, 155, 6, 77, 224, 32, 239,
            6>>)
        @@ (<<SHA512, <<0, 0, 97>>, <<0>>, 2, 1>> :> <<15, 202, 97, 157, 207,
            134, 240, 35, 25, 31, 75, 25, 105, 168, 32, 199, 114, 148, 75,
            130, 235, 254, 11, 99, 155, 57, 113, 78, 99, 33, 32, 151, 174,
            191, 122, 12, 111, 116, 164, 26, 125, 53, 19, 154, 226, 74, 72,
            227, 88, 21, 140, 181, 93, 157, 104, 12, 83, 142, 33, 130, 251,
            112, 8, 221>>)
        @@ (<<SHA512, <<0, 0, 97>>, <<0, 0, 0>>, 2, 1>> :> <<3, 244, 61, 5,
            214, 15, 106, 15, 237, 34, 198, 54, 193, 239, 116, 90, 36, 230,
            158, 53, 210, 217, 1, 192, 38, 108, 47, 71, 144, 136, 15, 215,
            151, 184, 26, 126, 122, 238, 167, 112, 135, 41, 30, 118, 135, 35,
            97, 240, 195, 44, 56, 4, 133, 162, 64, 1, 186, 71, 167, 22, 234,
            228, 240, 120>>)
        @@ (<<SHA512, <<0, 0, 97>>, <<37, 74, 111>>, 2, 1>> :> <<45, 148, 17,
            26, 119, 246, 109, 6, 87, 73, 137, 226, 223, 105, 194, 182, 191,
            145, 48, 128, 143, 120, 199, 215, 131, 71, 190, 159, 101, 39, 97,
            103, 180, 107, 21, 53, 127, 11, 53, 15, 244, 205, 37, 206, 28, 13,
            219, 34, 69, 58, 77, 15, 90, 112, 141, 137, 146, 104, 212, 10,
            116, 74, 105, 222>>)
        @@ (<<SHA512, <<0, 0, 97>>, <<0, 0, 0, 0, 0, 0, 0, 0, 0, 0, 0, 0, 0,
            0, 0, 0>>, 2, 1>> :> <<179, 118, 96, 4, 191, 170, 55, 18, 188, 88,
            255, 138, 132, 39, 5, 200, 52, 165, 110, 255, 30, 249, 43, 56,
            124, 44, 122, 117, 154, 80, 75, 108, 68, 145, 117, 67, 98, 125,
            64, 37, 242, 227, 168, 232, 239, 145, 62, 252, 156, 33, 2, 225,
            128, 173, 75, 220, 80, 242, 64, 12, 225, 63, 130, 24>>)
        @@ (<<SHA512, <<0, 0, 97>>, <<37, 74, 111, 148, 185, 222, 3, 40, 77,
            114, 151, 188, 225, 6, 43, 80>>, 2, 1>> :> <<121, 207, 129, 18,
            147, 52, 203, 149, 127, 160, 109, 114, 106, 110, 233, 123, 196,
            103, 67, 45, 102, 21, 74, 242, 204, 127, 75, 23, 119, 62, 150, 75,
            154, 85, 125, 133, 119, 115, 191, 62, 23, 207, 56, 125, 25, 212,
            114, 180, 155, 109, 253, 107, 211, 227, 24, 73, 90, 59, 105, 47,
            68, 68, 251, 6>>)
        @@ (<<SHA512, <<0, 97, 97>>, <<>>, 2, 1>> :> <<107, 117, 203, 82, 133,
            141, 238, 127, 181, 240, 15, 157, 2, 92, 1, 17, 102, 132, 62, 144,
            162, 159, 63, 7, 74, 196, 58, 2, 228, 94, 43, 215, 18, 218, 88,
            28, 17, 7, 179, 211, 52, 151, 199, 186, 244, 72, 213, 201, 97,
            101, 54, 107, 125, 234, 127, 202, 240, 22, 77, 111, 60, 238, 150,
            171>>)
        @@ (<<SHA512, <<0, 97, 97>>, <<0>>, 2, 1>> :> <<69, 0, 126, 176, 100,
            137, 248, 90, 146, 250, 105, 21, 164, 191, 131, 82, 97, 67, 215,
            59, 169, 7, 122, 100, 175, 83, 11, 27, 6, 182, 37, 18, 89, 46,
            252, 32, 183, 160, 17, 225, 171, 113, 85, 31, 156, 63, 1, 119,
            242, 202, 206, 76, 242, 163, 20, 46, 242, 243, 98, 217, 44, 133,
            6, 158>>)
        @@ (<<SHA512, <<0, 97, 97>>, <<0, 0, 0>>, 2, 1>> :> <<224, 35, 106,
            59, 146, 46, 34, 16, 75, 105, 199, 38, 219, 59, 112, 48, 30, 123,
            129, 18, 85, 146, 208, 209, 209, 59, 111, 44, 152, 181, 11, 245,
            135, 62, 17, 31, 57, 236, 158, 36, 109, 219, 151, 160, 88, 81,
            110, 230, 236, 15, 226, 30, 64, 194, 203, 118, 133, 39, 241, 118,
            145, 163, 199, 6>>)
        @@ (<<SHA512, <<0, 97, 97>>, <<37, 74, 111>>, 2, 1>> :> <<52, 23, 74,
            87, 168, 130, 49, 164, 50, 67, 159, 81, 170, 19, 50, 249, 184, 79,
            176, 53, 231, 9, 144, 100, 85, 162, 141, 155, 71, 46, 240, 193,
            161, 96, 136, 113, 16, 198, 89, 188, 112, 40, 6, 42, 162, 87, 194,
            19, 207, 131, 233, 197, 158, 111, 252, 184, 12, 100, 239, 16, 93,
            146, 76, 10>>)
        @@ (<<SHA512, <<0, 97, 97>>, <<0, 0, 0, 0, 0, 0, 0, 0, 0, 0, 0, 0, 0,
            0, 0, 0>>, 2, 1>> :> <<187, 12, 29, 155, 240, 176, 14, 151, 236,
            93, 181, 131, 232, 92, 168, 177, 95, 190, 108, 85, 91, 83, 9, 52,
            8, 181, 134, 128, 162, 227, 8, 181, 115, 15, 220, 170, 91, 10,
            153, 43, 31, 228, 76, 65, 47, 199, 237, 99, 97, 7, 250, 221, 139,
            243, 215, 253, 10, 246, 57, 12, 161, 217, 45, 96>>)
        @@ (<<SHA512, <<0, 97, 97>>, <<37, 74, 111, 148, 185, 222, 3, 40, 77,
            114, 151, 188, 225, 6, 43, 80>>, 2, 1>> :> <<140, 144, 226, 253,
            26, 150, 199, 156, 61, 118, 159, 206, 192, 67, 208, 65, 175, 23,
            181, 123, 115, 68, 166, 177, 184, 104, 44, 203, 239, 144, 61, 35,
            107, 16, 142, 155, 208, 17, 169, 9, 114, 130, 166, 101, 228, 60,
            57, 16, 251, 170, 152, 195, 201, 35, 95, 129, 201, 26, 199, 233,
            137, 184, 7, 46>>)
        @@ (<<SHA512, <<97, 0, 97>>, <<>>, 2, 1>> :> <<76, 203, 233, 135, 200,
            150, 174, 147, 223, 33, 51, 11, 248, 243, 7, 248, 74, 165, 234,
            176, 241, 23, 60, 207, 100, 162, 103, 43, 53, 128, 241, 52, 145,
            89, 136, 179, 98, 222, 90, 200, 126, 184, 10, 190, 57, 40, 199,
            155, 161, 76, 226, 198, 11, 23, 73, 24, 17, 187, 154, 227, 248,
            203, 37, 251>>)
        @@ (<<SHA512, <<97, 0, 97>>, <<0>>, 2, 1>> :> <<174, 107, 133, 45,
            149, 37, 211, 134, 209, 37, 197, 19, 217, 33, 87, 103, 192, 238,
            50, 64, 228, 177, 88, 169, 57, 171, 97, 11, 76, 90, 247, 25, 5,
            107, 151, 76, 227, 77, 187, 161, 114, 12, 0, 221, 151, 252, 188,
            224, 3, 50, 217, 16, 94, 145, 252, 162, 210, 187, 227, 217, 232,
            73, 97, 162>>)
        @@ (<<SHA512, <<97, 0, 97>>, <<0, 0, 0>>, 2, 1>> :> <<191, 233, 112,
            9, 235, 10, 37, 84, 82, 27, 188, 162, 72, 120, 143, 66, 173, 248,
            186, 133, 229, 231, 99, 233, 248, 71, 58, 209, 105, 66, 255, 217,
            217, 150, 86, 236, 80, 62, 52, 14, 92, 170, 116, 84, 163, 146,
            126, 205, 255, 53, 67, 55, 13, 31, 109, 30, 167, 218, 104, 131, 8,
            193, 211, 229>>)
        @@ (<<SHA512, <<97, 0, 97>>, <<37, 74, 111>>, 2, 1>> :> <<236, 205,
            165, 8, 112, 132, 252, 253, 120, 33, 77, 19, 227, 208, 160, 122,
            60, 233, 166, 114, 102, 159, 28, 182, 143, 139, 81, 176, 213, 250,
            178, 6, 85, 173, 160, 116, 146, 244, 255, 158, 50, 234, 22, 42,
            193, 204, 128, 213, 58, 244, 52, 123, 250, 109, 195, 25, 3, 129,
            17, 173, 194, 188, 227, 57>>)
        @@ (<<SHA512, <<97, 0, 97>>, <<0, 0, 0, 0, 0, 0, 0, 0, 0, 0, 0, 0, 0,
            0, 0, 0>>, 2, 1>> :> <<71, 175, 40, 176, 103, 244, 156, 19, 52,
            82, 100, 5, 188, 128, 18, 148, 239, 177, 141, 172, 111, 57, 90,
            111, 154, 127, 117, 114, 252, 195, 194, 150, 222, 25, 242, 230,
            124, 57, 121, 80, 70, 173, 229, 110, 28, 140, 185, 143, 95, 220,
            40, 25, 89, 174, 171, 141, 88, 57, 141, 86, 76, 144, 104, 237>>)
        @@ (<<SHA512, <<97, 0, 97>>, <<37, 74, 111, 148, 185, 222, 3, 40, 77,
            114, 151, 188, 225, 6, 43, 80>>, 2, 1>> :> <<43, 143, 232, 224, 9,
            12, 71, 206, 244, 145, 49, 78, 45, 150, 142, 96, 156, 218, 45,
            196, 15, 79, 153, 205, 163, 39, 5, 193, 170, 173, 20, 86, 38, 75,
            218, 125, 31, 236, 44, 56, 180, 38, 206, 249, 131, 101, 155, 167,
            20, 105, 180, 184, 222, 242, 195, 130, 18, 224, 190, 156, 172,
            214, 182, 198>>)
        @@ (<<SHA512, <<97, 97, 97>>, <<>>, 2, 1>> :> <<78, 254, 60, 44, 197,
            52, 149, 213, 238, 160, 89, 203, 58, 244, 238, 248, 240, 254, 210,
            88, 179, 238, 225, 81, 172, 2, 244, 9, 169, 83, 170, 11, 202, 163,
            235, 206, 82, 6, 92, 174, 42, 234, 176, 129, 88, 88, 18, 32, 47,
            50, 212, 177, 22, 69, 24, 150, 253, 100, 45, 202, 177, 96, 184,
            85>>)
        @@ (<<SHA512, <<97, 97, 97>>, <<0>>, 2, 1>> :> <<3, 153, 237, 27, 54,
            245, 6, 166, 107, 228, 224, 88, 134, 54, 16, 223, 40, 143, 151,
            254, 85, 215, 4, 52, 189, 156, 7, 196, 107, 237, 51, 12, 84, 9,
            236, 78, 193, 22, 189, 176, 205, 246, 12, 58, 80, 121, 185, 45,
            160, 174, 178, 201, 33, 51, 153, 148, 252, 133, 221, 108, 60, 141,
            207, 72>>)
        @@ (<<SHA512, <<97, 97, 97>>, <<0, 0, 0>>, 2, 1>> :> <<110, 40, 186,
            15, 85, 228, 254, 217, 35, 18, 133, 215, 19, 172, 50, 194, 37, 47,
            221, 137, 157, 173, 55, 96, 193, 129, 133, 12, 241, 203, 104, 26,
            77, 246, 13, 146, 98, 15, 18, 160, 39, 250, 106, 1, 5, 232, 140,
            43, 164, 201, 194, 96, 102, 47, 12, 117, 71, 9, 184, 198, 67, 37,
            193, 31>>)
        @@ (<<SHA512, <<97, 97, 97>>, <<37, 74, 111>>, 2, 1>> :> <<21, 207,
            129, 150, 15, 173, 152, 233, 2, 120, 112, 233, 232, 224, 166, 41,
            204, 146, 79, 21, 15, 1, 182, 39, 98, 84, 180, 173, 111, 242, 67,
            23, 140, 215, 22, 162, 119, 195, 189, 28, 233, 55, 23, 253, 31,
            192, 187, 214, 84, 188, 244, 57, 81, 199, 212, 223, 82, 239, 46,
            2, 33, 104, 84, 93>>)
        @@ (<<SHA512, <<97, 97, 97>>, <<0, 0, 0, 0, 0, 0, 0, 0, 0, 0, 0, 0, 0,
            0, 0, 0>>, 2, 1>> :> <<6, 49, 71, 197, 141, 128, 134, 117, 212,
            27, 136, 63, 185, 34, 217, 143, 249, 174, 216, 184, 177, 152, 120,
            13, 109, 135, 225, 54, 161, 104, 232, 39, 21, 170, 75, 115, 47,
            148, 106, 85, 165, 103, 88, 172, 72, 138, 65, 150, 120, 244, 191,
            181, 114, 174, 227, 116, 48, 202, 154, 106, 85, 113, 133, 225>>)
        @@ (<<SHA512, <<97, 97, 97>>, <<37, 74, 111, 148, 185, 222, 3, 40, 77,
            114, 151, 188, 225, 6, 43, 80>>, 2, 1>> :> <<175, 37, 172, 226,
            165, 159, 224, 248, 20, 36, 115, 23, 215, 51, 44, 253, 45, 80,
            140, 92, 237, 201, 247, 51, 244, 251, 6, 231, 18, 150, 153, 67,
            90, 46, 49, 145, 13, 162, 59, 186, 241, 80, 17, 162, 176, 161,
            217, 43, 23, 229, 115, 233, 68, 79, 114, 129, 125, 106, 60, 76,
            180, 222, 131, 200>>)
        @@ (<<SHA512, <<97, 97, 97, 97, 97, 97, 97, 97, 97, 97, 97, 97, 97,
            97, 97, 97, 97, 97, 97, 97, 97, 97, 97, 97, 97, 97, 97, 97, 97,
            97, 97, 97, 97, 97, 97, 97, 97, 97, 97, 97, 97, 97, 97, 97, 97,
            97, 97, 97, 97, 97, 97, 97, 97, 97, 97, 97, 97, 97, 97, 97, 97,
            97, 97, 97, 97>>, <<>>, 2, 1>> :> <<138, 28, 100, 30, 66, 240, 11,
            21, 147, 38, 127, 40, 68, 101, 226, 103, 109, 229, 121, 31, 71,
            22, 147, 9, 62, 194, 136, 6, 62, 94, 141, 168, 87, 89, 7, 180,
            154, 40, 227, 246, 114, 193, 201, 42, 98, 38, 35, 63, 45, 106,
            135, 50, 57, 224, 243, 240, 40, 137, 108, 254, 68, 126, 53, 112>>)
        @@ (<<SHA512, <<97, 97, 97, 97, 97, 97, 97, 97, 97, 97, 97, 97, 97,
            97, 97, 97, 97, 97, 97, 97, 97, 97, 97, 97, 97, 97, 97, 97, 97,
            97, 97, 97, 97, 97, 97, 97, 97, 97, 97, 97, 97, 97, 97, 97, 97,
            97, 97, 97, 97, 97, 97, 97, 97, 97, 97, 97, 97, 97, 97, 97, 97,
            97, 97, 97, 97>>, <<0>>, 2, 1>> :> <<25, 185, 114, 102, 95, 209,
            92, 80, 229, 175, 168, 202, 252, 252, 233, 39, 221, 98, 115, 130,
            40, 71, 239, 242, 161, 85, 113, 200, 9, 18, 203, 232, 19, 38, 84,
            249, 117, 209, 107, 98, 97, 192, 76, 208, 236, 210, 45, 195, 116,
            167, 200, 126, 98, 211, 146, 25, 25, 146, 99, 153, 206, 34, 252,
            221>>)
        @@ (<<SHA512, <<97, 97, 97, 97, 97, 97, 97, 97, 97, 97, 97, 97, 97,
            97, 97, 97, 97, 97, 97, 97, 97, 97, 97, 97, 97, 97, 97, 97, 97,
            97, 97, 97, 97, 97, 97, 97, 97, 97, 97, 97, 97, 97, 97, 97, 97,
            97, 97, 97, 97, 97, 97, 97, 97, 97, 97, 97, 97, 97, 97, 97, 97,
            97, 97, 97, 97>>, <<0, 0, 0>>, 2, 1>> :> <<119, 157, 34, 27, 197,
            222, 54, 163, 72, 17, 31, 86, 31, 199, 106, 224, 48, 105, 162, 35,
            120, 22, 249, 78, 176, 96, 117, 113, 87, 216, 232, 129, 231, 123,
            73, 60, 234, 194, 200, 224, 177, 19, 5, 5, 142, 253, 104, 240,
            239, 199, 11, 185, 169, 201, 189, 145, 222, 192, 184, 49, 92, 73,
            76, 249>>)
        @@ (<<SHA512, <<97, 97, 97, 97, 97, 97, 97, 97, 97, 97, 97, 97, 97,
            97, 97, 97, 97, 97, 97, 97, 97, 97, 97, 97, 97, 97, 97, 97, 97,
            97, 97, 97, 97, 97, 97, 97, 97, 97, 97, 97, 97, 97, 97, 97, 97,
            97, 97, 97, 97, 97, 97, 97, 97, 97, 97, 97, 97, 97, 97, 97, 97,
            97, 97, 97, 97>>, <<37, 74, 111>>, 2, 1>> :> <<155, 63, 93, 255,
            253, 175, 75, 194, 69, 134, 133, 19, 59, 20, 109, 207, 112, 81,
            77, 122, 196, 55, 120, 249, 127, 123, 130, 211, 36, 197, 171, 168,
            191, 79, 11, 58, 37, 135, 7, 97, 56, 150, 209, 220, 78, 60, 43, 6,
            56, 66, 116, 238, 80, 128, 136, 165, 185, 248, 208, 6, 116, 225,
            202, 134>>)
        @@ (<<SHA512, <<97, 97, 97, 97, 97, 97, 97, 97, 97, 97, 97, 97, 97,
            97, 97, 97, 97, 97, 97, 97, 97, 97, 97, 97, 97, 97, 97, 97, 97,
            97, 97, 97, 97, 97, 97, 97, 97, 97, 97, 97, 97, 97, 97, 97, 97,
            97, 97, 97, 97, 97, 97, 97, 97, 97, 97, 97, 97, 97, 97, 97, 97,
            97, 97, 97, 97>>, <<0, 0, 0, 0, 0, 0, 0, 0, 0, 0, 0, 0, 0, 0, 0,
            0>>, 2, 1>> :> <<219, 204, 76, 247, 129, 7, 242, 2, 216, 235, 128,
            218, 235, 80, 174, 64, 76, 55, 244, 21, 220, 237, 207, 147, 213,
            163, 168, 85, 11, 97, 228, 210, 7, 112, 137, 126, 130, 61, 196,
            71, 83, 205, 79, 31, 207, 112, 214, 205, 54, 134, 75, 61, 55, 139,
            176, 120, 12, 134, 133, 231, 168, 8, 70, 238>>)
        @@ (<<SHA512, <<97, 97, 97, 97, 97, 97, 97, 97, 97, 97, 97, 97, 97,
            97, 97, 97, 97, 97, 97, 97, 97, 97, 97, 97, 97, 97, 97, 97, 97,
            97, 97, 97, 97, 97, 97, 97, 97, 97, 97, 97, 97, 97, 97, 97, 97,
            97, 97, 97, 97, 97, 97, 97, 97, 97, 97, 97, 97, 97, 97, 97, 97,
            97, 97, 97, 97>>, <<37, 74, 111, 148, 185, 222, 3, 40, 77, 114,
            151, 188, 225, 6, 43, 80>>, 2, 1>> :> <<23, 44, 208, 249, 34, 134,
            138, 44, 240, 199, 179, 159, 184, 224, 10, 215, 169, 8, 50, 46,
            185, 161, 148, 228, 10, 251, 137, 83, 72, 209, 177, 64, 200, 11,
            163, 134, 131, 90, 244, 193, 246, 38, 189, 2, 144, 125, 60, 73,
            71, 156, 32, 133, 1, 182, 210, 160, 81, 207, 64, 93, 46, 85, 7,
            183>>)
    )
    \* sha512.New, 1000 rounds, block 1
    @@ (
           (<<SHA512, <<>>, <<>>, 1000, 1>> :> <<203, 147, 9, 108, 58, 2, 190,
            235, 28, 95, 172, 54, 118, 92, 144, 17, 254, 153, 248, 216, 234,
            98, 54, 96, 72, 252, 152, 203, 152, 223, 234, 143, 79, 141, 48,
            85, 165, 239, 155, 122, 242, 151, 115, 173, 130, 82, 149, 84, 105,
            57, 157, 37, 211, 10, 83, 49, 40, 137, 40, 88, 31, 184, 110,
            203>>)
        @@ (<<SHA512, <<>>, <<0>>, 1000, 1>> :> <<105, 31, 120, 230, 41, 91,
            184, 103, 117, 59, 204, 131, 99, 19, 21, 237, 90, 105, 64, 192, 2,
            14, 90, 45, 29, 79, 44, 207, 222, 133, 96, 236, 94, 180, 186, 2,
            151, 66, 120, 191, 156, 17, 151, 115, 23, 12, 233, 130, 163, 11,
            192, 4, 152, 186, 47, 36, 58, 106, 112, 250, 4, 20, 207, 97>>)
        @@ (<<SHA512, <<>>, <<0, 0, 0>>, 1000, 1>> :> <<14, 253, 145, 144, 73,
            201, 255, 46, 249, 17, 197, 250, 145, 62, 188, 18, 120, 200, 55,
            82, 36, 2, 151, 119, 8, 87, 170, 130, 54, 25, 165, 253, 39, 20, 8,
            242, 174, 154, 24, 164, 228, 103, 31, 91, 144, 147, 166, 173, 74,
            220, 229, 163, 124, 124, 161, 6, 22, 255, 179, 108, 40, 52, 171,
            184>>)
        @@ (<<SHA512, <<>>, <<37, 74, 111>>, 1000, 1>> :> <<36, 193, 142, 244,
            81, 74, 163, 203, 0, 99, 243, 124, 155, 147, 208, 178, 209, 76,
            20, 55, 223, 57, 233, 90, 215, 39, 65, 226, 22, 179, 0, 186, 235,
            163, 221, 44, 91, 73, 153, 215, 157, 111, 82, 157, 199, 96, 121,
            206, 108, 58, 168, 89, 250, 107, 229, 249, 195, 216, 56, 104, 255,
            255, 175, 99>>)
        @@ (<<SHA512, <<>>, <<0, 0, 0, 0, 0, 0, 0, 0, 0, 0, 0, 0, 0, 0, 0,
            0>>, 1000, 1>> :> <<199, 145, 164, 34, 153, 97, 42, 228, 177, 187,
            100, 15, 141, 186, 183, 39, 145, 125, 69, 216, 178, 152, 186, 143,
            245, 102, 112, 32, 171, 89, 164, 67, 10, 232, 194, 235, 221, 99,
            165, 157, 160, 152, 148, 200, 133, 31, 56, 95, 50, 0, 230, 113,
            179, 197, 226, 205, 132, 252, 180, 176, 211, 210, 175, 56>>)
        @@ (<<SHA512, <<>>, <<37, 74, 111, 148, 185, 222, 3, 40, 77, 114, 151,
            188, 225, 6, 43, 80>>, 1000, 1>> :> <<33, 178, 222, 130, 56, 130,
            243, 18, 89, 167, 37, 18, 28, 168, 64, 101, 193, 134, 85, 88, 52,
            229, 11, 190, 120, 58, 245, 163, 235, 163, 33, 151, 214, 105, 38,
            156, 131, 210, 208, 11, 24, 55, 195, 4, 77, 121, 30, 232, 31, 173,
            200, 38, 46, 120, 101, 251, 57, 106, 28, 239, 212, 149, 238,
            119>>)
        @@ (<<SHA512, <<97>>, <<>>, 1000, 1>> :> <<215, 147, 32, 40, 95, 157,
            251, 184, 51, 230, 152, 255, 156, 31, 88, 177, 207, 235, 205, 34,
            191, 181, 98, 153, 50, 157, 61, 36, 141, 224, 19, 143, 134, 80,
            239, 61, 249, 187, 53, 196, 218, 26, 43, 18, 209, 102, 7, 147,
            250, 116, 250, 243, 92, 76, 113, 121, 19, 220, 81, 180, 62, 242,
            17, 58>>)
        @@ (<<SHA512, <<97>>, <<0>>, 1000, 1>> :> <<108, 145, 198, 2, 124,
            221, 221, 135, 255, 186, 9, 112, 119, 154, 195, 111, 162, 61, 37,
            78, 37, 118, 127, 55, 132, 189, 28, 224, 213, 137, 102, 76, 25,
            106, 186, 39, 165, 100, 212, 50, 158, 79, 188, 89, 112, 195, 181,
            172, 16, 190, 110, 109, 106, 239, 217, 251, 128, 164, 79, 145, 39,
            91, 63, 60>>)
        @@ (<<SHA512, <<97>>, <<0, 0, 0>>, 1000, 1>> :> <<27, 108, 26, 141,
            70, 68, 18, 152, 238, 43, 43, 150, 156, 110, 52, 181, 22, 29, 249,
            77, 132, 21, 205, 254, 70, 31, 247, 52, 113, 101, 49, 82, 176,
            222, 182, 128, 62, 25, 118, 47, 130, 86, 249, 129, 196, 162, 70,
            225, 166, 139, 145, 38, 226, 239, 134, 222, 179, 48, 87, 12, 186,
            30, 92, 127>>)
        @@ (<<SHA512, <<97>>, <<37, 74, 111>>, 1000, 1>> :> <<59, 5, 69, 149,
            112, 55, 160, 16, 140, 153, 165, 21, 76, 134, 207, 208, 124, 75,
            244, 137, 28, 55, 63, 147, 9, 7, 121, 94, 44, 150, 165, 132, 156,
            234, 112, 177, 251, 35, 48, 101, 16, 59, 238, 220, 92, 151, 129,
            66, 170, 243, 189, 123, 107, 103, 45, 254, 102, 22, 172, 69, 220,
            201, 173, 175>>)
        @@ (<<SHA512, <<97>>, <<0, 0, 0, 0, 0, 0, 0, 0, 0, 0, 0, 0, 0, 0, 0,
            0>>, 1000, 1>> :> <<41, 119, 81, 67, 221, 209, 221, 25, 188, 237,
            221, 237, 221, 172, 20, 153, 136, 246, 79, 63, 52, 229, 213, 104,
            165, 159, 125, 140, 31, 122, 30, 65, 30, 70, 159, 37, 188, 36, 15,
            64, 17, 1, 143, 129, 157, 2, 184, 56, 70, 172, 44, 103, 84, 68,
            35, 27, 188, 198, 212, 42, 134, 41, 49, 104>>)
        @@ (<<SHA512, <<97>>, <<37, 74, 111, 148, 185, 222, 3, 40, 77, 114,
            151, 188, 225, 6, 43, 80>>, 1000, 1>> :> <<200, 150, 80, 213, 150,
            63, 196, 221, 11, 172, 98, 62, 216, 33, 32, 121, 81, 68, 239, 111,
            143, 59, 110, 230, 12, 156, 181, 163, 191, 214, 118, 151, 27, 224,
            94, 186, 52, 3, 148, 240, 66, 130, 237, 220, 106, 215, 158, 207,
            85, 99, 157, 222, 249, 0, 80, 159, 200, 2, 134, 254, 171, 249,
            163, 72>>)
        @@ (<<SHA512, <<0, 97>>, <<>>, 1000, 1>> :> <<127, 191, 234, 48, 198,
            208, 51, 214, 57, 229, 214, 244, 83, 130, 11, 243, 95, 79, 168,
            202, 169, 66, 230, 138, 104, 7, 118, 38, 115, 224, 13, 189, 83,
            140, 201, 2, 159, 140, 147, 168, 92, 251, 173, 189, 62, 117, 120,
            171, 148, 147, 239, 73, 255, 6, 242, 145, 45, 15, 74, 169, 200,
            193, 187, 179>>)
        @@ (<<SHA512, <<0, 97>>, <<0>>, 1000, 1>> :> <<100, 235, 219, 79, 18,
            209, 190, 134, 169, 90, 115, 88, 120, 145, 137, 214, 146, 68, 140,
            250, 114, 239, 35, 237, 140, 13, 236, 110, 221, 192, 105, 151,
            188, 33, 186, 110, 171, 66, 20, 115, 118, 192, 143, 174, 147, 182,
            224, 198, 244, 100, 174, 97, 240, 140, 230, 131, 232, 253, 249,
            126, 10, 175, 148, 185>>)
        @@ (<<SHA512, <<0, 97>>, <<0, 0, 0>>, 1000, 1>> :> <<222, 25, 94, 255,
            103, 76, 142, 217, 234, 232, 132, 59, 77, 232, 56, 138, 148, 103,
            173, 17, 186, 133, 109, 110, 53, 244, 131, 227, 33, 162, 50, 141,
            247, 95, 218, 249, 31, 66, 2, 193, 135, 6, 251, 209, 23, 225, 56,
            13, 157, 127, 149, 14, 95, 50, 20, 165, 106, 13, 61, 35, 15, 129,
            186, 141>>)
        @@ (<<SHA512, <<0, 97>>, <<37, 74, 111>>, 1000, 1>> :> <<60, 133, 245,
            244, 213, 160, 134, 49, 113, 224, 166, 94, 250, 237, 249, 210,
            254, 203, 70, 170, 150, 100, 92, 126, 177, 85, 80, 151, 177, 182,
            212, 126, 189, 202, 156, 15, 221, 231, 130, 221, 136, 178, 0, 137,
            166, 166, 69, 158, 145, 141, 184, 48, 210, 71, 164, 107, 248, 1,
            52, 201, 189, 249, 196, 68>>)
        @@ (<<SHA512, <<0, 97>>, <<0, 0, 0, 0, 0, 0, 0, 0, 0, 0, 0, 0, 0, 0,
            0, 0>>, 1000, 1>> :> <<244, 94, 16, 66, 253, 234, 186, 140, 95,
            64, 178, 80, 35, 15, 140, 14, 154, 19, 38, 138, 248, 90, 64, 85,
            4, 253, 241, 132, 7, 103, 111, 6, 181, 201, 70, 27, 152, 133, 45,
            211, 243, 39, 247, 67, 166, 55, 229, 188, 69, 47, 161, 248, 102,
            136, 213, 164, 242, 38, 108, 79, 182, 177, 142, 130>>)
        @@ (<<SHA512, <<0, 97>>, <<37, 74, 111, 148, 185, 222, 3, 40, 77, 114,
            151, 188, 225, 6, 43, 80>>, 1000, 1>> :> <<188, 85, 68, 10, 2, 47,
            1, 170, 83, 137, 190, 160, 233, 73, 82, 206, 108, 107, 163, 121,
            137, 243, 51, 24, 170, 48, 107, 193, 238, 209, 171, 214, 172, 199,
            232, 157, 43, 84, 168, 166, 192, 133, 29, 236, 204, 35, 82, 94,
            254, 9, 231, 175, 214, 91, 163, 104, 43, 91, 136, 163, 10, 0, 30,
            220>>)
        @@ (<<SHA512, <<97, 97>>, <<>>, 1000, 1>> :> <<117, 3, 226, 148, 91,
            162, 144, 99, 115, 124, 202, 255, 12, 199, 232, 16, 85, 82, 147,
            140, 33, 21, 232, 107, 182, 200, 145, 119, 243, 0, 21, 12, 148,
            183, 185, 146, 166, 64, 193, 85, 34, 70, 124, 191, 93, 235, 38,
            22, 95, 174, 111, 82, 61, 233, 0, 36, 180, 203, 19, 241, 169, 110,
            102, 105>>)
        @@ (<<SHA512, <<97, 97>>, <<0>>, 1000, 1>> :> <<179, 230, 202, 37,
            215, 196, 28, 213, 24, 93, 139, 21, 226, 156, 41, 213, 209, 144,
            226, 200, 173, 147, 182, 88, 28, 202, 142, 135, 206, 31, 72, 33,
            19, 246, 38, 56, 41, 138, 198, 197, 115, 208, 173, 62, 133, 28,
            250, 31, 77, 217, 149, 145, 7, 82, 180, 45, 70, 212, 202, 161, 95,
            253, 20, 92>>)
        @@ (<<SHA512, <<97, 97>>, <<0, 0, 0>>, 1000, 1>> :> <<227, 136, 53, 5,
            212, 203, 57, 47, 73, 161, 137, 30, 46, 179, 87, 98, 19, 201, 161,
            84, 130, 68, 14, 13, 146, 168, 115, 38, 230, 108, 125, 37, 29,
            104, 235, 203, 115, 77, 238, 71, 239, 17, 166, 137, 40, 194, 175,
            67, 187, 210, 1, 76, 240, 38, 12, 13, 236, 231, 146, 162, 133,
            151, 9, 179>>)
        @@ (<<SHA512, <<97, 97>>, <<37, 74, 111>>, 1000, 1>> :> <<69, 76, 171,
            239, 12, 165, 127, 121, 110, 248, 159, 73, 149, 73, 8, 221, 189,
            137, 118, 131, 67, 86, 246, 90, 91, 118, 173, 165, 47, 103, 104,
            114, 219, 243, 73, 42, 201, 192, 245, 181, 149, 167, 17, 222, 16,
            242, 116, 241, 209, 163, 244, 153, 70, 28, 49, 234, 84, 15, 254,
            164, 253, 151, 232, 185>>)
        @@ (<<SHA512, <<97, 97>>, <<0, 0, 0, 0, 0, 0, 0, 0, 0, 0, 0, 0, 0, 0,
            0, 0>>, 1000, 1>> :> <<36, 162, 247, 35, 241, 97, 198, 67, 61,
            249, 220, 251, 51, 189, 61, 35, 7, 253, 247, 229, 20, 16, 48, 240,
            154, 81, 144, 18, 46, 6, 177, 0, 226, 39, 249, 207, 214, 139, 225,
            165, 198, 165, 70, 233, 81, 85, 175, 47, 127, 33, 70, 117, 169,
            33, 59, 19, 41, 141, 118, 221, 116, 23, 230, 216>>)
        @@ (<<SHA512, <<97, 97>>, <<37, 74, 111, 148, 185, 222, 3, 40, 77,
            114, 151, 188, 225, 6, 43, 80>>, 1000, 1>> :> <<175, 229, 186,
            241, 13, 203, 26, 209, 153, 223, 92, 1, 108, 40, 194, 171, 0, 193,
            153, 218, 116, 223, 51, 62, 85, 90, 160, 139, 146, 245, 94, 140,
            36, 19, 85, 179, 56, 124, 189, 254, 207, 56, 209, 89, 12, 100, 57,
            55, 196, 223, 226, 99, 220, 154, 109, 0, 151, 63, 100, 254, 113,
            86, 95, 22>>)
        @@ (<<SHA512, <<0, 0, 97>>, <<>>, 1000, 1>> :> <<176, 210, 94, 102, 8,
            36, 51, 32, 67, 178, 174, 64, 125, 200, 75, 224, 144, 48, 224,
            239, 204, 80, 142, 42, 176, 218, 226, 41, 26, 57, 150, 189, 26,
            86, 163, 227, 91, 197, 29, 36, 53, 107, 14, 87, 79, 28, 140, 215,
            218, 156, 174, 20, 128, 138, 85, 55, 155, 76, 200, 63, 204, 105,
            27, 252>>)
        @@ (<<SHA512, <<0, 0, 97>>, <<0>>, 1000, 1>> :> <<159, 244, 199, 58,
            126, 83, 246, 196, 229, 103, 194, 82, 203, 11, 140, 77, 241, 188,
            75, 178, 239, 51, 20, 16, 204, 243, 117, 4, 100, 45, 158, 112,
            162, 60, 74, 255, 99, 53, 230, 74, 97, 125, 206, 201, 30, 29, 24,
            84, 240, 9, 21, 83, 55, 30, 144, 156, 229, 182, 192, 224, 180,
            149, 164, 73>>)
        @@ (<<SHA512, <<0, 0, 97>>, <<0, 0, 0>>, 1000, 1>> :> <<158, 232, 91,
            124, 47, 11, 252, 133, 71, 56, 249, 167, 30, 172, 217, 254, 201,
            136, 197, 8, 0, 197, 159, 239, 55, 29, 36, 39, 29, 158, 248, 183,
            75, 250, 71, 33, 105, 217, 178, 165, 142, 126, 243, 44, 191, 4,
            223, 101, 248, 153, 16, 114, 240, 202, 192, 128, 239, 63, 188,
            247, 229, 112, 174, 118>>)
        @@ (<<SHA512, <<0, 0, 97>>, <<37, 74, 111>>, 1000, 1>> :> <<102, 49,
            56, 134, 114, 68, 250, 73, 81, 238, 173, 44, 45, 208, 96, 75, 88,
            198, 76, 65, 17, 102, 236, 67, 191, 127, 199, 210, 7, 50, 185,
            109, 8, 238, 47, 246, 143, 32, 193, 196, 42, 43, 187, 19, 31, 89,
            165, 24, 107, 5, 193, 140, 32, 240, 111, 22, 111, 126, 183, 82,
            206, 164, 178, 155>>)
        @@ (<<SHA512, <<0, 0, 97>>, <<0, 0, 0, 0, 0, 0, 0, 0, 0, 0, 0, 0, 0,
            0, 0, 0>>, 1000, 1>> :> <<157, 110, 1, 236, 255, 108, 134, 78, 74,
            109, 181, 208, 106, 166, 45, 80, 245, 151, 8, 63, 45, 117, 242,
            202, 13, 170, 25, 99, 8, 19, 169, 149, 13, 198, 240, 169, 79, 115,
            63, 130, 110, 30, 218, 84, 160, 240, 189, 255, 193, 102, 230, 106,
            60, 131, 179, 254, 156, 155, 161, 161, 213, 126, 53, 191>>)
        @@ (<<SHA512, <<0, 0, 97>>, <<37, 74, 111, 148, 185, 222, 3, 40, 77,
            114, 151, 188, 225, 6, 43, 80>>, 1000, 1>> :> <<225, 33, 62, 240,
            32, 128, 58, 120, 169, 248, 13, 43, 254, 157, 72, 47, 65, 149,
            125, 23, 68, 49, 38, 7, 182, 123, 103, 65, 246, 106, 58, 235, 239,
            36, 203, 218, 120, 18, 72, 23, 158, 218, 83, 206, 244, 26, 118,
            93, 32, 206, 30, 94, 67, 117, 31, 149, 195, 172, 17, 46, 141, 253,
            34, 19>>)
        @@ (<<SHA512, <<0, 97, 97>>, <<>>, 1000, 1>> :> <<23, 218, 81, 198,
            94, 40, 151, 161, 76, 166, 244, 142, 40, 22, 3, 199, 77, 146, 20,
            1, 128, 164, 63, 130, 248, 145, 122, 46, 153, 224, 236, 189, 145,
            115, 199, 83, 121, 86, 152, 194, 220, 110, 74, 216, 20, 51, 120,
            55, 1, 199, 139, 52, 213, 227, 187, 235, 2, 244, 195, 38, 168, 36,
            217, 87>>)
        @@ (<<SHA512, <<0, 97, 97>>, <<0>>, 1000, 1>> :> <<225, 186, 140, 157,
            81, 224, 136, 84, 252, 16, 56, 128, 186, 194, 243, 22, 73, 172,
            172, 245, 133, 43, 10, 158, 8, 65, 224, 154, 187, 71, 188, 160,
            109, 238, 88, 96, 109, 170, 250, 102, 131, 172, 27, 148, 41, 190,
            68, 131, 195, 37, 93, 120, 254, 75, 73, 25, 33, 78, 136, 135, 18,
            100, 241, 241>>)
        @@ (<<SHA512, <<0, 97, 97>>, <<0, 0, 0>>, 1000, 1>> :> <<108, 251,
            249, 177, 251, 181, 150, 72, 196, 112, 203, 220, 4, 50, 63, 70,
            222, 146, 25, 55, 94, 131, 83, 195, 112, 50, 150, 122, 126, 29, 5,
            222, 237, 208, 140, 86, 35, 135, 217, 33, 241, 177, 45, 139, 121,
            244, 197, 163, 95, 212, 73, 7, 37, 53, 136, 157, 238, 182, 53,
            154, 245, 96, 63, 253>>)
        @@ (<<SHA512, <<0, 97, 97>>, <<37, 74, 111>>, 1000, 1>> :> <<221, 124,
            68, 51, 206, 51, 154, 73, 167, 19, 142, 157, 170, 24, 5, 179, 126,
            90, 141, 186, 176, 155, 90, 245, 190, 104, 162, 236, 187, 196,
            128, 220, 120, 10, 82, 159, 45, 59, 168, 230, 88, 172, 183, 220,
            138, 71, 75, 133, 76, 154, 99, 246, 139, 49, 189, 174, 183, 195,
            1, 76, 18, 125, 89, 115>>)
        @@ (<<SHA512, <<0, 97, 97>>, <<0, 0, 0, 0, 0, 0, 0, 0, 0, 0, 0, 0, 0,
            0, 0, 0>>, 1000, 1>> :> <<212, 182, 217, 51, 19, 110, 170, 237,
            195, 162, 165, 126, 131, 43, 247, 102, 146, 86, 43, 116, 159, 7,
            143, 115, 29, 106, 88, 23, 209, 195, 11, 255, 97, 157, 191, 210,
            75, 111, 52, 67, 167, 32, 185, 223, 35, 53, 124, 168, 8, 224, 189,
            82, 244, 245, 217, 116, 137, 80, 123, 162, 196, 188, 68, 210>>)
        @@ (<<SHA512, <<0, 97, 97>>, <<37, 74, 111, 148, 185, 222, 3, 40, 77,
            114, 151, 188, 225, 6, 43, 80>>, 1000, 1>> :> <<255, 106, 190,
            222, 110, 181, 90, 64, 150, 231, 216, 72, 192, 59, 100, 111, 122,
            66, 209, 157, 162, 146, 13, 69, 254, 50, 254, 204, 31, 27, 143,
            108, 113, 224, 169, 222, 64, 121, 153, 44, 104, 11, 200, 98, 63,
            140, 224, 49, 169, 229, 213, 254, 8, 112, 29, 57, 28, 163, 237,
            65, 129, 60, 162, 22>>)
        @@ (<<SHA512, <<97, 0, 97>>, <<>>, 1000, 1>> :> <<118, 147, 172, 168,
            33, 232, 91, 61, 110, 138, 61, 5, 48, 15, 68, 105, 18, 1, 169,
            152, 131, 117, 209, 146, 108, 120, 78, 107, 51, 1, 232, 83, 79,
            39, 6, 37, 203, 73, 19, 240, 72, 1, 77, 234, 224, 28, 86, 248,
            132, 252, 247, 233, 255, 47, 115, 103, 93, 210, 178, 44, 25, 233,
            42, 115>>)
        @@ (<<SHA512, <<97, 0, 97>>, <<0>>, 1000, 1>> :> <<133, 138, 166, 163,
            207, 128, 23, 54, 168, 82, 53, 193, 18, 224, 119, 210, 192, 68,
            143, 15, 63, 25, 96, 241, 45, 131, 1, 100, 64, 112, 118, 114, 152,
            20, 60, 165, 129, 204, 146, 14, 250, 25, 111, 16, 226, 161, 126,
            144, 49, 205, 238, 37, 97, 79, 113, 60, 196, 137, 91, 86, 37, 58,
            175, 212>>)
        @@ (<<SHA512, <<97, 0, 97>>, <<0, 0, 0>>, 1000, 1>> :> <<223, 118,
            119, 100, 189, 69, 213, 46, 123, 194, 100, 193, 7, 85, 188, 238,
            208, 10, 133, 219, 186, 110, 248, 186, 226, 212, 115, 56, 175,
            254, 189, 225, 133, 106, 166, 112, 201, 203, 117, 17, 114, 86,
            140, 105, 113, 71, 43, 228, 111, 56, 139, 249, 166, 79, 243, 163,
            198, 231, 29, 72, 75, 11, 70, 215>>)
        @@ (<<SHA512, <<97, 0, 97>>, <<37, 74, 111>>, 1000, 1>> :> <<10, 34,
            182, 183, 130, 182, 75, 28, 85, 4, 234, 196, 157, 30, 84, 173,
            167, 83, 158, 248, 105, 176, 74, 90, 250, 5, 142, 254, 64, 99,
            228, 174, 198, 99, 31, 225, 34, 23, 239, 109, 212, 12, 24, 249,
            174, 226, 97, 136, 238, 15, 213, 15, 253, 82, 223, 203, 127, 80,
            231, 117, 3, 92, 119, 142>>)
        @@ (<<SHA512, <<97, 0, 97>>, <<0, 0, 0, 0, 0, 0, 0, 0, 0, 0, 0, 0, 0,
            0, 0, 0>>, 1000, 1>> :> <<146, 132, 133, 242, 71, 121, 215, 197,
            146, 24, 25, 68, 17, 5, 212, 156, 50, 239, 217, 159, 8, 241, 57,
            227, 77, 155, 35, 93, 242, 21, 227, 181, 158, 198, 224, 188, 148,
            142, 103, 29, 199, 230, 209, 147, 9, 90, 117, 178, 83, 80, 162,
            252, 22, 185, 192, 127, 111, 62, 0, 166, 139, 186, 240, 227>>)
        @@ (<<SHA512, <<97, 0, 97>>, <<37, 74, 111, 148, 185, 222, 3, 40, 77,
            114, 151, 188, 225, 6, 43, 80>>, 1000, 1>> :> <<202, 164, 219, 72,
            189, 31, 105, 177, 170, 16, 182, 231, 156, 171, 236, 74, 94, 38,
            184, 133, 56, 89, 75, 18, 17, 223, 121, 202, 255, 214, 190, 99,
            146, 128, 194, 250, 226, 154, 242, 133, 71, 213, 255, 40, 49, 75,
            104, 145, 2, 144, 120, 91, 152, 64, 112, 160, 47, 188, 174, 102,
            48, 93, 12, 144>>)
        @@ (<<SHA512, <<97, 97, 97>>, <<>>, 1000, 1>> :> <<134, 34, 164, 108,
            105, 41, 0, 62, 118, 20, 155, 220, 180, 208, 57, 178, 210, 212,
            68, 226, 186, 121, 39, 161, 157, 146, 191, 10, 176, 16, 197, 45,
            136, 186, 134, 168, 160, 211, 109, 178, 131, 197, 120, 22, 41,
            101, 155, 28, 161, 201, 196, 234, 123, 28, 31, 165, 135, 210, 232,
            139, 18, 114, 60, 192>>)
        @@ (<<SHA512, <<97, 97, 97>>, <<0>>, 1000, 1>> :> <<147, 111, 51, 56,
            207, 80, 89, 57, 244, 231, 207, 20, 159, 238, 62, 150, 94, 32,
            159, 182, 222, 200, 27, 254, 147, 163, 25, 7, 178, 148, 40, 254,
            252, 141, 145, 246, 134, 241, 15, 172, 97, 68, 171, 23, 12, 115,
            155, 202, 161, 10, 79, 255, 68, 159, 113, 67, 203, 143, 22, 16,
            154, 90, 205, 9>>)
        @@ (<<SHA512, <<97, 97, 97>>, <<0, 0, 0>>, 1000, 1>> :> <<77, 25, 173,
            242, 191, 146, 35, 219, 42, 49, 177, 24, 238, 89, 23, 198, 96,
            209, 9, 238, 227, 208, 39, 3, 31, 55, 163, 161, 203, 54, 114, 159,
            40, 142, 85, 194, 93, 180, 20, 33, 68, 251, 17, 36, 19, 36, 117,
            209, 126, 158, 129, 236, 113, 127, 190, 11, 22, 56, 216, 123, 142,
            193, 179, 107>>)
        @@ (<<SHA512, <<97, 97, 97>>, <<37, 74, 111>>, 1000, 1>> :> <<2, 221,
            120, 90, 165, 109, 226, 50, 239, 51, 228, 235, 48, 194, 119, 123,
            100, 16, 82, 147, 149, 167, 254, 159, 239, 152, 235, 136, 3, 31,
            82, 140, 76, 210, 47, 5, 91, 180, 59, 147, 1, 175, 232, 174, 170,
            147, 218, 97, 121, 131, 120, 245, 203, 66, 130, 34, 84, 16, 42,
            70, 189, 171, 28, 180>>)
        @@ (<<SHA512, <<97, 97, 97>>, <<0, 0, 0, 0, 0, 0, 0, 0, 0, 0, 0, 0, 0,
            0, 0, 0>>, 1000, 1>> :> <<193, 45, 233, 225, 57, 33, 199, 17, 96,
            122, 253, 161, 139, 143, 106, 139, 81, 219, 30, 68, 157, 235, 161,
            145, 57, 77, 237, 65, 44, 108, 37, 213, 76, 162, 163, 234, 215,
            157, 231, 77, 253, 206, 93, 142, 55, 108, 192, 211, 84, 72, 150,
            189, 101, 29, 217, 108, 134, 28, 186, 75, 11, 49, 87, 124>>)
        @@ (<<SHA512, <<97, 97, 97>>, <<37, 74, 111, 148, 185, 222, 3, 40, 77,
            114, 151, 188, 225, 6, 43, 80>>, 1000, 1>> :> <<153, 26, 188, 147,
            104, 132, 123, 46, 161, 45, 83, 119, 47, 74, 147, 210, 129, 25,
            53, 127, 32, 193, 151, 10, 51, 98, 127, 166, 149, 99, 46, 163, 13,
            252, 181, 107, 26, 191, 239, 13, 242, 150, 210, 213, 13, 178, 185,
            125, 37, 77, 120, 86, 221, 243, 4, 161, 166, 79, 248, 227, 115,
            142, 149, 115>>)
        @@ (<<SHA512, <<97, 97, 97, 97, 97, 97, 97, 97, 97, 97, 97, 97, 97,
            97, 97, 97, 97, 97, 97, 97, 97, 97, 97, 97, 97, 97, 97, 97, 97,
            97, 97, 97, 97, 97, 97, 97, 97, 97, 97, 97, 97, 97, 97, 97, 97,
            97, 97, 97, 97, 97, 97, 97, 97, 97, 97, 97, 97, 97, 97, 97, 97,
            97, 97, 97, 97>>, <<>>, 1000, 1>> :> <<13, 82, 197, 245, 26, 113,
            124, 237, 6, 94, 196, 228, 120, 169, 18, 128, 219, 218, 187, 175,
            235, 183, 98, 171, 194, 161, 125, 8, 88, 74, 138, 67, 149, 17, 24,
            143, 189, 190, 92, 34, 151, 128, 96, 175, 148, 196, 192, 176, 215,
            220, 119, 168, 29, 125, 11, 21, 139, 209, 232, 97, 34, 157, 47,
            63>>)
        @@ (<<SHA512, <<97, 97, 97, 97, 97, 97, 97, 97, 97, 97, 97, 97, 97,
            97, 97, 97, 97, 97, 97, 97, 97, 97, 97, 97, 97, 97, 97, 97, 97,
            97, 97, 97, 97, 97, 97, 97, 97, 97, 97, 97, 97, 97, 97, 97, 97,
            97, 97, 97, 97, 97, 97, 97, 97, 97, 97, 97, 97, 97, 97, 97, 97,
            97, 97, 97, 97>>, <<0>>, 1000, 1>> :> <<253, 180, 91, 37, 218,
            156, 251, 229, 44, 115, 253, 211, 198, 223, 160, 106, 219, 62, 91,
            171, 76, 43, 213, 116, 225, 180, 36, 33, 7, 103, 236, 227, 230,
            75, 121, 247, 151, 58, 215, 59, 242, 84, 110, 113, 185, 36, 36, 7,
            67, 217, 244, 190, 30, 116, 74, 33, 196, 36, 141, 213, 115, 145,
            117, 199>>)
        @@ (<<SHA512, <<97, 97, 97, 97, 97, 97, 97, 97, 97, 97, 97, 97, 97,
            97, 97, 97, 97, 97, 97, 97, 97, 97, 97, 97, 97, 97, 97, 97, 97,
            97, 97, 97, 97, 97, 97, 97, 97, 97, 97, 97, 97, 97, 97, 97, 97,
            97, 97, 97, 97, 97, 97, 97, 97, 97, 97, 97, 97, 97, 97, 97, 97,
            97, 97, 97, 97>>, <<0, 0, 0>>, 1000, 1>> :> <<167, 12, 0, 49, 115,
            248, 152, 77, 95, 94, 123, 154, 149, 126, 144, 247, 250, 154, 169,
            20, 88, 70, 212, 49, 74, 158, 16, 158, 174, 145, 207, 164, 211,
            254, 65, 216, 51, 31, 70, 251, 123, 156, 138, 9, 248, 223, 198,
            204, 234, 209, 196, 182, 125, 243, 45, 109, 85, 76, 219, 64, 189,
            170, 38, 144>>)
        @@ (<<SHA512, <<97, 97, 97, 97, 97, 97, 97, 97, 97, 97, 97, 97, 97,
            97, 97, 97, 97, 97, 97, 97, 97, 97, 97, 97, 97, 97, 97, 97, 97,
            97, 97, 97, 97, 97, 97, 97, 97, 97, 97, 97, 97, 97, 97, 97, 97,
            97, 97, 97, 97, 97, 97, 97, 97, 97, 97, 97, 97, 97, 97, 97, 97,
            97, 97, 97, 97>>, <<37, 74, 111>>, 1000, 1>> :> <<197, 50, 63, 69,
            38, 207, 63, 48, 245, 243, 199, 23, 170, 106, 222, 3, 191, 16, 75,
            102, 107, 143, 161, 101, 206, 213, 114, 183, 91, 212, 63, 193,
            130, 205, 143, 227, 178, 96, 12, 2, 202, 181, 111, 74, 161, 196,
            109, 108, 195, 136, 128, 255, 62, 127, 168, 6, 214, 4, 221, 8, 51,
            140, 229, 190>>)
        @@ (<<SHA512, <<97, 97, 97, 97, 97, 97, 97, 97, 97, 97, 97, 97, 97,
            97, 97, 97, 97, 97, 97, 97, 97, 97, 97, 97, 97, 97, 97, 97, 97,
            97, 97, 97, 97, 97, 97, 97, 97, 97, 97, 97, 97, 97, 97, 97, 97,
            97, 97, 97, 97, 97, 97, 97, 97, 97, 97, 97, 97, 97, 97, 97, 97,
            97, 97, 97, 97>>, <<0, 0, 0, 0, 0, 0, 0, 0, 0, 0, 0, 0, 0, 0, 0,
            0>>, 1000, 1>> :> <<220, 16, 129, 217, 229, 148, 182, 1, 145, 20,
            138, 34, 195, 244, 54, 158, 203, 90, 107, 44, 166, 130, 253, 249,
            126, 186, 12, 166, 226, 215, 126, 182, 182, 252, 202, 170, 61,
            140, 208, 117, 53, 212, 97, 184, 140, 181, 3, 70, 216, 23, 104,
            79, 63, 18, 145, 156, 171, 20, 203, 54, 205, 239, 183, 48>>)
        @@ (<<SHA512, <<97, 97, 97, 97, 97, 97, 97, 97, 97, 97, 97, 97, 97,
            97, 97, 97, 97, 97, 97, 97, 97, 97, 97, 97, 97, 97, 97, 97, 97,
            97, 97, 97, 97, 97, 97, 97, 97, 97, 97, 97, 97, 97, 97, 97, 97,
            97, 97, 97, 97, 97, 97, 97, 97, 97, 97, 97, 97, 97, 97, 97, 97,
            97, 97, 97, 97>>, <<37, 74, 111, 148, 185, 222, 3, 40, 77, 114,
            151, 188, 225, 6, 43, 80>>, 1000, 1>> :> <<2, 137, 161, 200, 223,
            190, 76, 49, 240, 108, 44, 130, 153, 43, 113, 62, 107, 68, 42, 97,
            78, 219, 45, 137, 150, 6, 232, 113, 221, 173, 94, 26, 244, 4, 171,
            250, 109, 129, 159, 87, 135, 162, 145, 112, 150, 216, 7, 71, 23,
            117, 101, 66, 108, 209, 122, 32, 97, 22, 151, 176, 72, 22, 2,
            75>>)
    )
    \* sha512.New, 120000 rounds, block 1
    @@ (
           (<<SHA512, <<>>, <<>>, 120000, 1>> :> <<249, 207, 149, 144, 156,
            244, 80, 36, 155, 245, 59, 59, 172, 168, 55, 102, 141, 90, 21,
            237, 136, 8, 122, 0, 205, 159, 120, 59, 40, 229, 38, 151, 100, 79,
            211, 251, 235, 80, 46, 57, 79, 124, 17, 52, 181, 202, 43, 105, 37,
            254, 62, 172, 55, 72, 228, 34, 249, 163, 17, 108, 229, 42, 53,
            98>>)
        @@ (<<SHA512, <<>>, <<0>>, 120000, 1>> :> <<200, 242, 68, 57, 134, 72,
            22, 171, 232, 127, 111, 36, 197, 201, 173, 78, 20, 241, 131, 206,
            139, 254, 62, 43, 61, 225, 192, 84, 254, 209, 186, 47, 146, 24,
            10, 72, 132, 101, 159, 232, 170, 147, 232, 30, 96, 121, 182, 126,
            184, 138, 175, 180, 202, 195, 89, 192, 168, 216, 48, 32, 67, 8,
            33, 185>>)
        @@ (<<SHA512, <<>>, <<0, 0, 0>>, 120000, 1>> :> <<241, 191, 229, 177,
            129, 255, 31, 113, 135, 95, 72, 96, 103, 51, 216, 115, 215, 11,
            80, 65, 31, 42, 175, 163, 140, 42, 180, 174, 129, 1, 184, 134, 71,
            42, 85, 221, 192, 200, 191, 46, 164, 55, 10, 136, 178, 40, 232,
            64, 91, 61, 66, 39, 113, 247, 196, 91, 135, 106, 178, 194, 104,
            139, 0, 141>>)
        @@ (<<SHA512, <<>>, <<37, 74, 111>>, 120000, 1>> :> <<46, 29, 179, 59,
            220, 227, 150, 7, 151, 101, 101, 123, 173, 122, 142, 234, 57, 209,
            235, 173, 253, 245, 156, 194, 79, 56, 19, 98, 188, 211, 211, 39,
            216, 168, 106, 205, 52, 18, 247, 218, 17, 116, 117, 191, 28, 248,
            140, 231, 120, 216, 117, 215, 124, 9, 75, 67, 41, 133, 40, 229,
            93, 145, 121, 242>>)
        @@ (<<SHA512, <<>>, <<0, 0, 0, 0, 0, 0, 0, 0, 0, 0, 0, 0, 0, 0, 0,
            0>>, 120000, 1>> :> <<195, 1, 59, 36, 208, 215, 43, 202, 207, 32,
            94, 190, 154, 41, 59, 153, 234, 209, 20, 135, 4, 62, 86, 221, 215,
            43, 214, 172, 178, 66, 6, 130, 92, 200, 103, 28, 3, 78, 137, 85,
            190, 236, 101, 128, 191, 224, 61, 174, 162, 45, 13, 183, 198, 101,
            203, 238, 120, 25, 145, 143, 245, 28, 239, 57>>)
        @@ (<<SHA512, <<>>, <<37, 74, 111, 148, 185, 222, 3, 40, 77, 114, 151,
            188, 225, 6, 43, 80>>, 120000, 1>> :> <<140, 66, 156, 123, 125,
            227, 21, 142, 94, 192, 229, 191, 15, 97, 103, 171, 60, 183, 254,
            122, 163, 0, 42, 20, 212, 191, 188, 146, 233, 176, 82, 154, 230,
            19, 207, 100, 30, 215, 173, 214, 116, 202, 48, 6, 155, 72, 76, 19,
            104, 31, 152, 3, 215, 225, 13, 52, 231, 31, 173, 145, 24, 29, 209,
            50>>)
        @@ (<<SHA512, <<97>>, <<>>, 120000, 1>> :> <<226, 181, 7, 72, 69, 100,
            158, 98, 59, 168, 72, 24, 17, 176, 126, 206, 211, 59, 203, 198,
            183, 118, 217, 207, 211, 113, 219, 62, 235, 46, 200, 167, 112,
            195, 167, 162, 230, 155, 200, 20, 171, 144, 170, 70, 32, 47, 250,
            176, 218, 146, 40, 226, 199, 84, 232, 220, 48, 168, 174, 255, 25,
            98, 207, 126>>)
        @@ (<<SHA512, <<97>>, <<0>>, 120000, 1>> :> <<214, 185, 96, 241, 255,
            210, 195, 97, 182, 237, 24, 15, 150, 134, 12, 212, 75, 186, 232,
            235, 89, 10, 192, 202, 142, 61, 46, 179, 8, 103, 64, 160, 214,
            199, 15, 170, 135, 33, 217, 103, 81, 204, 72, 204, 236, 156, 167,
            162, 99, 7, 248, 80, 9, 193, 182, 119, 239, 130, 31, 206, 64, 60,
            181, 122>>)
        @@ (<<SHA512, <<97>>, <<0, 0, 0>>, 120000, 1>> :> <<189, 128, 157, 9,
            33, 152, 85, 249, 137, 143, 191, 232, 250, 69, 191, 214, 87, 33,
            252, 20, 203, 210, 133, 176, 117, 180, 21, 67, 41, 8, 48, 203, 31,
            225, 111, 171, 150, 41, 152, 145, 59, 239, 46, 72, 138, 14, 103,
            106, 60, 212, 215, 238, 140, 192, 228, 10, 153, 173, 179, 60, 171,
            96, 205, 180>>)
        @@ (<<SHA512, <<97>>, <<37, 74, 111>>, 120000, 1>> :> <<25, 97, 32,
            37, 150, 217, 186, 47, 232, 158, 247, 0, 233, 114, 105, 36, 243,
            160, 210, 194, 99, 234, 10, 187, 166, 198, 19, 89, 203, 65, 4,
            166, 132, 214, 62, 95, 20, 117, 71, 104, 176, 220, 139, 171, 16,
            120, 226, 201, 88, 32, 208, 148, 172, 249, 218, 192, 12, 147, 51,
            114, 243, 54, 158, 37>>)
        @@ (<<SHA512, <<97>>, <<0, 0, 0, 0, 0, 0, 0, 0, 0, 0, 0, 0, 0, 0, 0,
            0>>, 120000, 1>> :> <<239, 178, 27, 0, 151, 188, 181, 71, 179,
            151, 57, 47, 77, 159, 220, 77, 61, 151, 48, 152, 81, 155, 133,
            113, 158, 192, 4, 123, 24, 181, 110, 58, 96, 36, 108, 200, 39,
            170, 210, 172, 22, 168, 206, 122, 193, 132, 243, 150, 90, 250,
            200, 25, 58, 110, 252, 198, 32, 50, 87, 125, 237, 21, 26, 9>>)
        @@ (<<SHA512, <<97>>, <<37, 74, 111, 148, 185, 222, 3, 40, 77, 114,
            151, 188, 225, 6, 43, 80>>, 120000, 1>> :> <<54, 189, 35, 155,
            217, 67, 66, 21, 204, 6, 159, 148, 99, 92, 151, 72, 99, 184, 130,
            155, 50, 185, 214, 110, 74, 90, 157, 203, 228, 229, 172, 96, 149,
            231, 55, 61, 84, 83, 135, 137, 189, 132, 32, 237, 140, 21, 91,
            231, 97, 98, 9, 209, 250, 149, 91, 115, 117, 47, 125, 185, 114,
            17, 129, 117>>)
        @@ (<<SHA512, <<0, 97>>, <<>>, 120000, 1>> :> <<84, 236, 54, 115, 52,
            152, 108, 248, 153, 195, 104, 157, 90, 241, 222, 252, 42, 184,
            148, 211, 6, 135, 131, 23, 28, 211, 73, 214, 128, 255, 192, 211,
            111, 80, 221, 220, 188, 98, 103, 255, 109, 70, 30, 102, 121, 235,
            187, 129, 111, 81, 164, 19, 86, 35, 228, 175, 85, 2, 242, 211,
            243, 60, 241, 23>>)
        @@ (<<SHA512, <<0, 97>>, <<0>>, 120000, 1>> :> <<166, 198, 206, 213,
            129, 248, 9, 91, 64, 77, 46, 29, 128, 84, 6, 194, 244, 254, 94,
            108, 26, 181, 70, 34, 187, 185, 231, 37, 58, 16, 241, 8, 61, 30,
            101, 180, 25, 35, 195, 217, 153, 96, 165, 155, 148, 186, 72, 39,
            68, 61, 141, 32, 244, 73, 159, 141, 223, 121, 45, 105, 4, 188,
            232, 1>>)
        @@ (<<SHA512, <<0, 97>>, <<0, 0, 0>>, 120000, 1>> :> <<226, 137, 174,
            156, 108, 215, 218, 103, 54, 214, 94, 107, 61, 136, 228, 254, 45,
            77, 25, 222, 173, 100, 20, 198, 241, 178, 178, 247, 202, 166, 245,
            148, 231, 24, 150, 60, 34, 199, 245, 81, 122, 53, 117, 207, 39,
            60, 38, 182, 217, 245, 143, 2, 92, 181, 118, 61, 218, 111, 211,
            184, 48, 113, 185, 88>>)
        @@ (<<SHA512, <<0, 97>>, <<37, 74, 111>>, 120000, 1>> :> <<54, 154,
            149, 146, 182, 27, 55, 167, 59, 156, 219, 153, 37, 153, 145, 120,
            217, 85, 29, 100, 203, 242, 159, 96, 211, 232, 248, 5, 95, 120,
            123, 233, 57, 72, 195, 176, 18, 188, 203, 28, 67, 133, 174, 247,
            155, 121, 133, 155, 1, 222, 86, 34, 106, 183, 77, 228, 57, 125,
            120, 254, 192, 42, 86, 223>>)
        @@ (<<SHA512, <<0, 97>>, <<0, 0, 0, 0, 0, 0, 0, 0, 0, 0, 0, 0, 0, 0,
            0, 0>>, 120000, 1>> :> <<94, 182, 214, 141, 59, 180, 153, 48, 157,
            209, 178, 52, 172, 98, 246, 147, 103, 70, 110, 171, 103, 225, 15,
            24, 75, 200, 228, 69, 170, 6, 17, 113, 32, 4, 92, 240, 123, 2,
            139, 155, 167, 25, 232, 18, 223, 92, 135, 92, 86, 20, 196, 175,
            52, 57, 158, 93, 79, 71, 122, 127, 148, 157, 30, 9>>)
        @@ (<<SHA512, <<0, 97>>, <<37, 74, 111, 148, 185, 222, 3, 40, 77, 114,
            151, 188, 225, 6, 43, 80>>, 120000, 1>> :> <<98, 233, 242, 234,
            93, 125, 208, 225, 131, 173, 166, 210, 64, 100, 44, 17, 188, 6,
            225, 48, 240, 59, 96, 255, 104, 138, 12, 152, 42, 12, 142, 174,
            94, 179, 53, 197, 161, 76, 8, 214, 252, 86, 119, 90, 137, 223,
            126, 32, 233, 185, 32, 72, 168, 70, 7, 39, 107, 40, 176, 34, 219,
            201, 31, 41>>)
        @@ (<<SHA512, <<97, 97>>, <<>>, 120000, 1>> :> <<131, 234, 191, 157,
            156, 93, 152, 227, 183, 109, 148, 176, 95, 160, 96, 29, 79, 2,
            111, 9, 54, 236, 132, 167, 86, 88, 125, 231, 118, 251, 68, 171,
            60, 130, 187, 41, 199, 148, 240, 126, 70, 125, 223, 201, 184, 179,
            227, 124, 49, 218, 5, 135, 80, 83, 203, 107, 228, 192, 64, 142,
            171, 132, 62, 50>>)
        @@ (<<SHA512, <<97, 97>>, <<0>>, 120000, 1>> :> <<86, 136, 211, 174,
            177, 199, 64, 159, 241, 28, 193, 155, 113, 254, 63, 247, 53, 181,
            189, 246, 6, 99, 157, 100, 220, 161, 204, 149, 115, 60, 87, 227,
            202, 124, 88, 113, 90, 25, 184, 25, 98, 113, 17, 126, 178, 38, 8,
            56, 81, 102, 65, 181, 32, 94, 225, 169, 205, 27, 231, 200, 22, 22,
            103, 116>>)
        @@ (<<SHA512, <<97, 97>>, <<0, 0, 0>>, 120000, 1>> :> <<233, 251, 144,
            185, 59, 141, 36, 203, 246, 21, 244, 133, 220, 100, 255, 54, 124,
            89, 254, 68, 234, 14, 32, 199, 36, 70, 134, 121, 186, 185, 232,
            116, 161, 212, 202, 140, 20, 106, 236, 112, 7, 215, 0, 213, 93,
            57, 117, 148, 66, 110, 220, 15, 218, 58, 94, 176, 146, 239, 73,
            240, 126, 206, 5, 192>>)
        @@ (<<SHA512, <<97, 97>>, <<37, 74, 111>>, 120000, 1>> :> <<146, 212,
            175, 66, 77, 74, 208, 69, 121, 109, 124, 34, 144, 181, 143, 197,
            134, 14, 59, 225, 6, 251, 57, 44, 161, 1, 27, 185, 130, 11, 176,
            58, 83, 245, 215, 215, 251, 233, 105, 36, 253, 38, 200, 90, 81,
            215, 84, 14, 209, 164, 122, 230, 198, 133, 100, 119, 189, 93, 149,
            177, 123, 249, 90, 196>>)
        @@ (<<SHA512, <<97, 97>>, <<0, 0, 0, 0, 0, 0, 0, 0, 0, 0, 0, 0, 0, 0,
            0, 0>>, 120000, 1>> :> <<61, 151, 12, 90, 65, 67, 181, 112, 112,
            5, 177, 42, 58, 246, 227, 178, 243, 187, 67, 93, 53, 169, 104,
            202, 130, 90, 154, 171, 224, 50, 154, 16, 33, 218, 114, 59, 98,
            62, 33, 80, 198, 182, 53, 41, 139, 75, 152, 100, 192, 58, 124,
            109, 199, 192, 62, 5, 62, 54, 51, 169, 105, 185, 87, 82>>)
        @@ (<<SHA512, <<97, 97>>, <<37, 74, 111, 148, 185, 222, 3, 40, 77,
            114, 151, 188, 225, 6, 43, 80>>, 120000, 1>> :> <<206, 99, 55, 96,
            62, 70, 168, 236, 187, 101, 206, 176, 153, 61, 246, 54, 73, 54,
            47, 54, 193, 102, 236, 40, 224, 11, 204, 248, 97, 188, 144, 204,
            110, 185, 198, 106, 4, 136, 223, 193, 185, 8, 93, 69, 163, 43,
            141, 124, 152, 89, 183, 172, 150, 109, 145, 166, 157, 181, 173,
            151, 229, 238, 222, 15>>)
        @@ (<<SHA512, <<0, 0, 97>>, <<>>, 120000, 1>> :> <<79, 210, 232, 46,
            119, 116, 193, 227, 185, 141, 191, 24, 38, 88, 184, 75, 61, 2,
            232, 66, 191, 125, 223, 90, 6, 96, 119, 139, 148, 188, 93, 193,
            38, 163, 220, 158, 91, 94, 188, 108, 159, 248, 76, 33, 122, 201,
            138, 6, 193, 254, 196, 6, 182, 205, 217, 135, 71, 102, 233, 71,
            220, 130, 27, 232>>)
        @@ (<<SHA512, <<0, 0, 97>>, <<0>>, 120000, 1>> :> <<211, 173, 195, 58,
            125, 79, 229, 210, 56, 163, 86, 106, 49, 19, 174, 119, 118, 35,
            130, 11, 41, 85, 171, 126, 8, 196, 251, 88, 178, 85, 66, 161, 130,
            23, 1, 104, 29, 200, 246, 74, 172, 100, 83, 227, 177, 249, 140,
            80, 126, 138, 255, 115, 171, 206, 33, 242, 188, 180, 181, 78, 238,
            142, 225, 225>>)
        @@ (<<SHA512, <<0, 0, 97>>, <<0, 0, 0>>, 120000, 1>> :> <<184, 218,
            218, 194, 203, 30, 65, 167, 33, 212, 247, 146, 156, 134, 12, 140,
            76, 18, 247, 201, 252, 69, 135, 74, 191, 222, 10, 113, 241, 186,
            227, 56, 243, 135, 39, 241, 86, 163, 94, 148, 229, 85, 206, 113,
            54, 101, 55, 47, 241, 163, 40, 17, 39, 94, 140, 75, 65, 65, 69,
            35, 95, 15, 141, 226>>)
        @@ (<<SHA512, <<0, 0, 97>>, <<37, 74, 111>>, 120000, 1>> :> <<74, 58,
            109, 48, 33, 1, 184, 204, 233, 165, 83, 44, 9, 139, 60, 92, 90,
            130, 89, 121, 238, 12, 5, 81, 75, 243, 103, 248, 46, 161, 153, 61,
            7, 31, 233, 210, 34, 146, 193, 186, 243, 138, 123, 223, 148, 248,
            70, 90, 153, 16, 119, 129, 25, 120, 11, 175, 242, 237, 17, 20,
            221, 55, 106, 191>>)
        @@ (<<SHA512, <<0, 0, 97>>, <<0, 0, 0, 0, 0, 0, 0, 0, 0, 0, 0, 0, 0,
            0, 0, 0>>, 120000, 1>> :> <<212, 130, 215, 33, 181, 215, 243, 44,
            45, 172, 136, 72, 163, 53, 7, 108, 96, 47, 212, 29, 191, 151, 66,
            245, 172, 93, 240, 63, 82, 175, 138, 227, 30, 238, 92, 193, 2,
            144, 95, 68, 238, 120, 217, 161, 227, 44, 87, 168, 103, 18, 3,
            128, 199, 62, 157, 199, 215, 78, 22, 203, 110, 228, 68, 16>>)
        @@ (<<SHA512, <<0, 0, 97>>, <<37, 74, 111, 148, 185, 222, 3, 40, 77,
            114, 151, 188, 225, 6, 43, 80>>, 120000, 1>> :> <<83, 7, 64, 93,
            117, 11, 71, 25, 254, 32, 3, 41, 120, 255, 221, 238, 76, 160, 72,
            62, 112, 211, 62, 113, 214, 66, 18, 41, 28, 183, 117, 129, 188,
            58, 31, 55, 118, 113, 118, 47, 157, 160, 41, 65, 147, 190, 193,
            29, 253, 83, 196, 194, 83, 255, 236, 243, 127, 81, 92, 93, 64, 56,
            157, 153>>)
        @@ (<<SHA512, <<0, 97, 97>>, <<>>, 120000, 1>> :> <<8, 217, 216, 180,
            125, 138, 54, 110, 243, 101, 206, 127, 84, 23, 19, 143, 135, 5,
            18, 157, 165, 245, 132, 121, 19, 33, 198, 98, 180, 81, 219, 99,
            199, 119, 54, 239, 227, 181, 207, 203, 89, 185, 243, 252, 196, 10,
            69, 148, 46, 132, 103, 65, 24, 32, 222, 244, 160, 67, 56, 12, 68,
            189, 205, 127>>)
        @@ (<<SHA512, <<0, 97, 97>>, <<0>>, 120000, 1>> :> <<96, 183, 236,
            219, 109, 71, 190, 112, 221, 19, 168, 16, 62, 109, 131, 232, 175,
            94, 124, 163, 26, 35, 72, 248, 246, 128, 193, 126, 60, 84, 194,
            114, 142, 84, 60, 184, 210, 126, 66, 23, 15, 229, 180, 229, 242,
            104, 187, 248, 251, 28, 91, 16, 76, 19, 218, 153, 89, 165, 47, 81,
            173, 13, 176, 113>>)
        @@ (<<SHA512, <<0, 97, 97>>, <<0, 0, 0>>, 120000, 1>> :> <<41, 132, 1,
            49, 238, 246, 91, 30, 145, 13, 187, 6, 23, 193, 94, 98, 173, 15,
            138, 129, 106, 183, 245, 226, 244, 17, 187, 81, 230, 120, 184, 86,
            224, 93, 195, 240, 253, 36, 29, 219, 253, 173, 219, 109, 182, 133,
            197, 194, 70, 226, 156, 255, 228, 88, 154, 199, 116, 66, 68, 121,
            24, 245, 170, 50>>)
        @@ (<<SHA512, <<0, 97, 97>>, <<37, 74, 111>>, 120000, 1>> :> <<93,
            158, 231, 74, 21, 55, 16, 64, 138, 237, 242, 178, 87, 206, 196,
            211, 252, 164, 217, 94, 239, 118, 189, 111, 84, 249, 206, 23, 56,
            204, 246, 78, 118, 53, 247, 120, 12, 84, 78, 121, 247, 243, 167,
            54, 230, 5, 126, 109, 249, 182, 1, 112, 151, 134, 85, 12, 209, 9,
            244, 125, 179, 12, 33, 5>>)
        @@ (<<SHA512, <<0, 97, 97>>, <<0, 0, 0, 0, 0, 0, 0, 0, 0, 0, 0, 0, 0,
            0, 0, 0>>, 120000, 1>> :> <<146, 218, 158, 244, 110, 230, 94, 15,
            8, 169, 10, 193, 65, 134, 53, 20, 5, 114, 171, 153, 86, 80, 118,
            77, 57, 131, 180, 34, 18, 87, 64, 142, 210, 94, 170, 103, 220,
            115, 187, 151, 221, 45, 197, 246, 187, 46, 245, 3, 84, 179, 247,
            23, 233, 9, 237, 55, 128, 188, 77, 142, 167, 78, 198, 221>>)
        @@ (<<SHA512, <<0, 97, 97>>, <<37, 74, 111, 148, 185, 222, 3, 40, 77,
            114, 151, 188, 225, 6, 43, 80>>, 120000, 1>> :> <<26, 230, 119,
            248, 93, 83, 243, 218, 236, 214, 206, 184, 117, 51, 214, 107, 247,
            25, 103, 25, 120, 14, 203, 212, 118, 231, 234, 181, 35, 22, 121,
            35, 42, 30, 216, 152, 93, 11, 53, 21, 108, 128, 109, 33, 246, 144,
            171, 238, 11, 207, 54, 25, 75, 111, 253, 61, 120, 72, 226, 219, 2,
            133, 8, 255>>)
        @@ (<<SHA512, <<97, 0, 97>>, <<>>, 120000, 1>> :> <<154, 65, 88, 170,
            25, 65, 21, 0, 46, 153, 31, 177, 6, 17, 55, 119, 21, 190, 160,
            243, 43, 95, 45, 44, 205, 75, 24, 251, 237, 243, 70, 165, 21, 251,
            54, 1, 68, 6, 116, 107, 78, 171, 253, 221, 4, 23, 169, 188, 117,
            219, 141, 196, 149, 49, 81, 206, 223, 88, 15, 114, 36, 255, 206,
            219>>)
        @@ (<<SHA512, <<97, 0, 97>>, <<0>>, 120000, 1>> :> <<177, 220, 113,
            25, 226, 131, 70, 63, 229, 132, 87, 92, 113, 197, 44, 99, 237, 58,
            45, 212, 33, 255, 238, 137, 169, 27, 133, 71, 148, 131, 87, 158,
            19, 203, 248, 232, 84, 57, 130, 100, 112, 75, 70, 226, 65, 50,
            125, 158, 117, 11, 20, 28, 244, 193, 167, 210, 250, 99, 158, 205,
            86, 145, 135, 196>>)
        @@ (<<SHA512, <<97, 0, 97>>, <<0, 0, 0>>, 120000, 1>> :> <<215, 82,
            71, 207, 253, 238, 157, 180, 58, 254, 217, 41, 23, 127, 88, 254,
            221, 11, 167, 133, 193, 197, 194, 30, 85, 43, 65, 108, 188, 17,
            159, 134, 160, 153, 181, 100, 172, 227, 199, 82, 207, 208, 98,
            228, 24, 96, 3, 82, 68, 38, 180, 83, 33, 92, 139, 40, 0, 26, 185,
            84, 167, 171, 37, 214>>)
        @@ (<<SHA512, <<97, 0, 97>>, <<37, 74, 111>>, 120000, 1>> :> <<150,
            114, 198, 67, 199, 119, 206, 83, 32, 24, 209, 249, 235, 54, 14,
            13, 157, 223, 114, 158, 35, 220, 133, 18, 138, 2, 252, 28, 156,
            129, 249, 5, 137, 38, 66, 176, 107, 91, 15, 172, 167, 244, 243,
            157, 22, 43, 164, 254, 206, 140, 214, 224, 33, 213, 81, 173, 28,
            30, 89, 39, 157, 49, 105, 137>>)
        @@ (<<SHA512, <<97, 0, 97>>, <<0, 0, 0, 0, 0, 0, 0, 0, 0, 0, 0, 0, 0,
            0, 0, 0>>, 120000, 1>> :> <<59, 85, 175, 208, 173, 154, 60, 88,
            66, 223, 152, 186, 119, 160, 112, 177, 50, 100, 173, 18, 151, 209,
            234, 35, 126, 163, 83, 6, 225, 47, 28, 38, 228, 215, 227, 13, 33,
            196, 155, 82, 168, 6, 233, 211, 230, 207, 90, 53, 107, 144, 47,
            211, 129, 233, 190, 33, 154, 17, 244, 228, 208, 178, 108, 133>>)
        @@ (<<SHA512, <<97, 0, 97>>, <<37, 74, 111, 148, 185, 222, 3, 40, 77,
            114, 151, 188, 225, 6, 43, 80>>, 120000, 1>> :> <<115, 205, 221,
            122, 75, 128, 38, 253, 150, 205, 124, 123, 226, 131, 98, 112, 140,
            6, 178, 35, 168, 230, 99, 72, 62, 91, 196, 254, 50, 221, 243, 81,
            235, 221, 78, 107, 61, 173, 158, 35, 2, 47, 211, 115, 244, 250,
            195, 107, 253, 62, 255, 169, 181, 66, 104, 218, 137, 131, 129,
            199, 128, 132, 25, 182>>)
        @@ (<<SHA512, <<97, 97, 97>>, <<>>, 120000, 1>> :> <<126, 180, 206,
            220, 129, 229, 210, 207, 160, 220, 109, 156, 202, 8, 124, 254,
            215, 6, 236, 72, 69, 73, 128, 91, 171, 81, 205, 159, 123, 29, 249,
            132, 36, 13, 60, 54, 51, 229, 252, 192, 169, 116, 66, 155, 164,
            68, 130, 119, 30, 252, 242, 48, 201, 221, 234, 36, 240, 113, 65,
            44, 208, 27, 147, 247>>)
        @@ (<<SHA512, <<97, 97, 97>>, <<0>>, 120000, 1>> :> <<75, 3, 111, 255,
            135, 149, 157, 189, 190, 15, 49, 87, 213, 5, 224, 78, 109, 217,
            255, 189, 61, 218, 199, 205, 247, 149, 150, 48, 127, 157, 160,
            150, 64, 77, 139, 139, 221, 209, 230, 4, 42, 243, 171, 130, 221,
            38, 62, 117, 143, 94, 188, 89, 91, 59, 6, 246, 56, 213, 186, 105,
            46, 171, 9, 143>>)
        @@ (<<SHA512, <<97, 97, 97>>, <<0, 0, 0>>, 120000, 1>> :> <<53, 240,
            252, 171, 180, 100, 47, 69, 170, 153, 125, 254, 179, 69, 4, 169,
            183, 122, 169, 166, 3, 153, 176, 89, 95, 68, 128, 70, 90, 93, 100,
            122, 93, 20, 74, 6, 87, 225, 235, 96, 238, 209, 120, 82, 4, 135,
            31, 238, 41, 193, 41, 118, 177, 49, 47, 120, 180, 142, 1, 215,
            118, 157, 244, 130>>)
        @@ (<<SHA512, <<97, 97, 97>>, <<37, 74, 111>>, 120000, 1>> :> <<213,
            152, 94, 188, 14, 64, 204, 37, 84, 32, 199, 56, 195, 205, 193,
            185, 111, 85, 209, 88, 195, 193, 82, 239, 29, 153, 251, 152, 196,
            67, 231, 53, 95, 200, 94, 254, 95, 81, 47, 169, 18, 110, 145, 244,
            239, 118, 87, 189, 211, 96, 13, 81, 143, 145, 154, 37, 165, 0,
            165, 179, 19, 201, 227, 13>>)
        @@ (<<SHA512, <<97, 97, 97>>, <<0, 0, 0, 0, 0, 0, 0, 0, 0, 0, 0, 0, 0,
            0, 0, 0>>, 120000, 1>> :> <<229, 72, 255, 33, 238, 186, 238, 123,
            90, 183, 157, 255, 34, 182, 58, 148, 241, 58, 64, 150, 126, 90,
            82, 100, 36, 11, 21, 199, 55, 64, 227, 224, 119, 21, 217, 164, 0,
            12, 232, 47, 1, 165, 163, 183, 76, 213, 97, 16, 246, 16, 94, 88,
            156, 15, 17, 235, 250, 105, 127, 152, 175, 134, 19, 6>>)
        @@ (<<SHA512, <<97, 97, 97>>, <<37, 74, 111, 148, 185, 222, 3, 40, 77,
            114, 151, 188, 225, 6, 43, 80>>, 120000, 1>> :> <<166, 181, 107,
            206, 180, 127, 14, 90, 0, 90, 100, 106, 207, 117, 233, 127, 231,
            227, 184, 43, 118, 79, 36, 254, 140, 9, 226, 185, 59, 223, 107,
            88, 79, 217, 22, 157, 32, 153, 86, 92, 182, 233, 218, 112, 105,
            233, 184, 30, 113, 18, 120, 228, 155, 170, 225, 242, 59, 126, 249,
            189, 14, 110, 88, 65>>)
        @@ (<<SHA512, <<97, 97, 97, 97, 97, 97, 97, 97, 97, 97, 97, 97, 97,
            97, 97, 97, 97, 97, 97, 97, 97, 97, 97, 97, 97, 97, 97, 97, 97,
            97, 97, 97, 97, 97, 97, 97, 97, 97, 97, 97, 97, 97, 97, 97, 97,
            97, 97, 97, 97, 97, 97, 97, 97, 97, 97, 97, 97, 97, 97, 97, 97,
            97, 97, 97, 97>>, <<>>, 120000, 1>> :> <<172, 246, 222, 139, 224,
            171, 45, 40, 104, 170, 144, 227, 124, 146, 205, 176, 5, 65, 26,
            234, 112, 210, 6, 112, 137, 16, 189, 25, 72, 219, 25, 248, 17, 64,
            44, 58, 176, 39, 12, 29, 40, 150, 63, 38, 85, 251, 52, 87, 138,
            140, 49, 194, 143, 153, 16, 53, 2, 161, 167, 13, 63, 154, 105,
            62>>)
        @@ (<<SHA512, <<97, 97, 97, 97, 97, 97, 97, 97, 97, 97, 97, 97, 97,
            97, 97, 97, 97, 97, 97, 97, 97, 97, 97, 97, 97, 97, 97, 97, 97,
            97, 97, 97, 97, 97, 97, 97, 97, 97, 97, 97, 97, 97, 97, 97, 97,
            97, 97, 97, 97, 97, 97, 97, 97, 97, 97, 97, 97, 97, 97, 97, 97,
            97, 97, 97, 97>>, <<0>>, 120000, 1>> :> <<114, 125, 61, 52, 116,
            64, 55, 119, 242, 3, 51, 223, 227, 148, 59, 59, 129, 218, 122, 26,
            150, 62, 48, 190, 128, 72, 171, 176, 187, 61, 78, 92, 252, 16,
            114, 162, 51, 59, 112, 17, 247, 252, 247, 180, 167, 19, 53, 172,
            181, 237, 160, 139, 120, 176, 51, 220, 13, 128, 36, 70, 1, 108,
            26, 41>>)
        @@ (<<SHA512, <<97, 97, 97, 97, 97, 97, 97, 97, 97, 97, 97, 97, 97,
            97, 97, 97, 97, 97, 97, 97, 97, 97, 97, 97, 97, 97, 97, 97, 97,
            97, 97, 97, 97, 97, 97, 97, 97, 97, 97, 97, 97, 97, 97, 97, 97,
            97, 97, 97, 97, 97, 97, 97, 97, 97, 97, 97, 97, 97, 97, 97, 97,
            97, 97, 97, 97>>, <<0, 0, 0>>, 120000, 1>> :> <<209, 185, 238,
            100, 106, 25, 200, 123, 180, 254, 176, 109, 107, 54, 138, 245, 1,
            139, 108, 26, 40, 142, 74, 208, 235, 139, 48, 203, 149, 75, 34,
            244, 66, 5, 174, 111, 199, 194, 39, 42, 212, 79, 77, 249, 129,
            178, 157, 166, 214, 28, 177, 74, 147, 174, 103, 80, 8, 225, 52,
            126, 197, 154, 91, 218>>)
        @@ (<<SHA512, <<97, 97, 97, 97, 97, 97, 97, 97, 97, 97, 97, 97, 97,
            97, 97, 97, 97, 97, 97, 97, 97, 97, 97, 97, 97, 97, 97, 97, 97,
            97, 97, 97, 97, 97, 97, 97, 97, 97, 97, 97, 97, 97, 97, 97, 97,
            97, 97, 97, 97, 97, 97, 97, 97, 97, 97, 97, 97, 97, 97, 97, 97,
            97, 97, 97, 97>>, <<37, 74, 111>>, 120000, 1>> :> <<226, 18, 110,
            65, 245, 92, 111, 112, 219, 34, 55, 196, 44, 10, 187, 234, 238,
            196, 250, 179, 95, 207, 199, 221, 199, 5, 204, 47, 220, 86, 156,
            255, 255, 201, 116, 13, 222, 30, 164, 20, 157, 131, 21, 8, 245,
            79, 182, 17, 85, 132, 74, 27, 91, 108, 36, 23, 169, 53, 69, 54,
            212, 236, 81, 179>>)
        @@ (<<SHA512, <<97, 97, 97, 97, 97, 97, 97, 97, 97, 97, 97, 97, 97,
            97, 97, 97, 97, 97, 97, 97, 97, 97, 97, 97, 97, 97, 97, 97, 97,
            97, 97, 97, 97, 97, 97, 97, 97, 97, 97, 97, 97, 97, 97, 97, 97,
            97, 97, 97, 97, 97, 97, 97, 97, 97, 97, 97, 97, 97, 97, 97, 97,
            97, 97, 97, 97>>, <<0, 0, 0, 0, 0, 0, 0, 0, 0, 0, 0, 0, 0, 0, 0,
            0>>, 120000, 1>> :> <<24, 69, 218, 226, 24, 10, 224, 253, 253, 22,
            183, 93, 30, 223, 40, 69, 181, 48, 186, 175, 173, 47, 163, 163,
            70, 57, 75, 117, 199, 113, 82, 192, 106, 107, 65, 25, 54, 226, 60,
            151, 164, 223, 208, 176, 125, 152, 209, 69, 77, 75, 139, 237, 48,
            233, 114, 205, 102, 211, 94, 192, 214, 225, 98, 37>>)
        @@ (<<SHA512, <<97, 97, 97, 97, 97, 97, 97, 97, 97, 97, 97, 97, 97,
            97, 97, 97, 97, 97, 97, 97, 97, 97, 97, 97, 97, 97, 97, 97, 97,
            97, 97, 97, 97, 97, 97, 97, 97, 97, 97, 97, 97, 97, 97, 97, 97,
            97, 97, 97, 97, 97, 97, 97, 97, 97, 97, 97, 97, 97, 97, 97, 97,
            97, 97, 97, 97>>, <<37, 74, 111, 148, 185, 222, 3, 40, 77, 114,
            151, 188, 225, 6, 43, 80>>, 120000, 1>> :> <<244, 243, 205, 118,
            60, 114, 222, 29, 12, 123, 160, 173, 23, 112, 221, 66, 254, 165,
            183, 92, 96, 220, 9, 216, 64, 105, 99, 95, 185, 165, 178, 195, 4,
            231, 107, 181, 81, 167, 97, 146, 70, 12, 31, 96, 183, 34, 122, 53,
            244, 201, 111, 221, 181, 13, 132, 141, 158, 5, 124, 255, 111, 145,
            244, 117>>)
    )

\* Block number block of the derived key.
PrfBlock(h, key, salt, iter, block) ==
    PrfTable[<<h, TrimZeros(key), salt, Rounds(iter), block>>]

RECURSIVE Blocks(_, _, _, _, _, _)
Blocks(h, key, salt, iter, block, numBlocks) ==
    IF block > numBlocks THEN <<>>
    ELSE PrfBlock(h, key, salt, iter, block)
         \o Blocks(h, key, salt, iter, block + 1, numBlocks)

\* pbkdf2.Key ends with dk[:keyLen]: a negative keyLen is a slice bound out
\* of range (or a negative capacity in make), a run-time panic.
KeyPanics(keyLen) == keyLen < 0

\* pbkdf2.Key(password, salt, iter, keyLen, h) for keyLen >= 0: the first
\* keyLen bytes of the blocks T_1, T_2, ...
Key(password, salt, iter, keyLen, h) ==
    LET numBlocks == (keyLen + Size(h) - 1) \div Size(h)
        dk == Blocks(h, HmacKey(h, password), salt, iter, 1, numBlocks)
    IN  SubSeq(dk, 1, keyLen)

\* ------------------------------------------------ constant-time compare

RECURSIVE BitXor(_, _, _)
BitXor(a, b, n) ==
    IF n = 0 THEN 0
    ELSE (((a % 2) + (b % 2)) % 2) + 2 * BitXor(a \div 2, b \div 2, n - 1)

RECURSIVE BitOr(_, _, _)
BitOr(a, b, n) ==
    IF n = 0 THEN 0
    ELSE (IF a % 2 = 1 \/ b % 2 = 1 THEN 1 ELSE 0)
         + 2 * BitOr(a \div 2, b \div 2, n - 1)

\* A comparison of the lengths alone.
CompareLengthsOnly(x, y) == IF Len(x) = Len(y) THEN 1 ELSE 0

\* v |= x[k] ^ y[k] over the positions lo..hi (the OR is taken in halves to
\* keep the evaluation shallow; the loop of the code takes it left to right).
RECURSIVE XorFold(_, _, _, _)
XorFold(x, y, lo, hi) ==
    IF lo > hi THEN 0
    ELSE IF lo = hi THEN BitXor(x[lo], y[lo], 8)
    ELSE LET mid == (lo + hi) \div 2
         IN  BitOr(XorFold(x, y, lo, mid), XorFold(x, y, mid + 1, hi), 8)

\* subtle.ConstantTimeCompare: 0 at once when the lengths differ, otherwise
\* the OR of the XOR of every byte pair is compared with 0.
ConstantTimeCompare(x, y) ==
    IF Len(x) # Len(y) THEN 0
    ELSE IF XorFold(x, y, 1, Len(x)) = 0 THEN 1 ELSE 0

\* ------------------------------------------------------ the random source

\* What crypto/rand.Read does to a buffer of n bytes: it fails, or fills the
\* buffer.  seed stands for the entropy delivered.
RandSeeds == {0, 37}

RandOutcomes ==
    {[fail |-> TRUE, seed |-> 0]} \cup {[fail |-> FALSE, seed |-> s] : s \in RandSeeds}

RandRead(n, rnd) == [j \in 1..n |-> (rnd.seed * j) % 256]

\* ---------------------------------------------------------- GenerateSalt

\* The guard as length < 0.
GenerateSaltNegativeOnly(length, rnd) ==
    IF length < 0
    THEN [salt |-> <<>>, err |-> ErrSaltLength, reads |-> 0]
    ELSE IF rnd.fail
    THEN [salt |-> <<>>, err |-> ErrRandRead, reads |-> 1]
    ELSE [salt |-> RandRead(length, rnd), err |-> NilErr, reads |-> 1]

\* GenerateSalt(length), with rnd the outcome of the read of the random
\* source, if one is made.  reads counts the calls of rand.Read.
GenerateSalt(length, rnd) ==
    IF length <= 0
    THEN [salt |-> <<>>, err |-> ErrSaltLength, reads |-> 0]
    ELSE IF rnd.fail
    THEN [salt |-> <<>>, err |-> ErrRandRead, reads |-> 1]
    ELSE [salt |-> RandRead(length, rnd), err |-> NilErr, reads |-> 1]

\* ----------------------------------------------------------- Params.Hash

\* The defaults with the salt length's written into an unset key length.
ResolveCrossed(p) ==
    [Iterations |-> IF p.Iterations = 0 THEN DefaultParams.Iterations ELSE p.Iterations,
     KeyLen |-> IF p.KeyLen = 0 THEN DefaultParams.SaltLen ELSE p.KeyLen,
     SaltLen |-> IF p.SaltLen = 0 THEN DefaultParams.SaltLen ELSE p.SaltLen,
     HashFunc |-> IF p.HashFunc = NilFunc THEN DefaultParams.HashFunc ELSE p.HashFunc]

\* The defaults applied to the receiver's zero fields (pbkdf.go:79-90).
Resolve(p) ==
    [Iterations |-> IF p.Iterations = 0 THEN DefaultParams.Iterations ELSE p.Iterations,
     KeyLen |-> IF p.KeyLen = 0 THEN DefaultParams.KeyLen ELSE p.KeyLen,
     SaltLen |-> IF p.SaltLen = 0 THEN DefaultParams.SaltLen ELSE p.SaltLen,
     HashFunc |-> IF p.HashFunc = NilFunc THEN DefaultParams.HashFunc ELSE p.HashFunc]

\* The format without its leading '$'.
SprintfNoLead(iterations, keyLen, b64Salt, b64Hash) ==
    AlgTag \o <<"$", "i", "=">> \o FormatInt(iterations)
    \o <<",", "l", "=">> \o FormatInt(keyLen)
    \o <<"$">> \o b64Salt \o <<"$">> \o b64Hash

\* fmt.Sprintf("$pbkdf2-sha256$i=%d,l=%d$%s$%s", ...)
Sprintf(iterations, keyLen, b64Salt, b64Hash) ==
    <<"$">> \o AlgTag \o <<"$", "i", "=">> \o FormatInt(iterations)
    \o <<",", "l", "=">> \o FormatInt(keyLen)
    \o <<"$">> \o b64Salt \o <<"$">> \o b64Hash

\* p.Hash(password).  panicked: pbkdf2.Key panicked and nothing is returned.
ParamsHash(p, password, rnd) ==
    LET r == Resolve(p)
        g == GenerateSalt(r.SaltLen, rnd)
    IN  IF g.err # NilErr
        THEN [resolved |-> r, salt |-> g.salt, dk |-> <<>>, out |-> <<>>,
              err |-> g.err, panicked |-> FALSE, reads |-> g.reads]
        ELSE IF KeyPanics(r.KeyLen)
        THEN [resolved |-> r, salt |-> g.salt, dk |-> <<>>, out |-> <<>>,
              err |-> NilErr, panicked |-> TRUE, reads |-> g.reads]
        ELSE
            LET dk == Key(password, g.salt, r.Iterations, r.KeyLen, r.HashFunc)
                b64Salt == EncodeToString(g.salt)
                b64Hash == EncodeToString(dk)
            IN  [resolved |-> r, salt |-> g.salt, dk |-> dk,
                 out |-> Sprintf(r.Iterations, r.KeyLen, b64Salt, b64Hash),
                 err |-> NilErr, panicked |-> FALSE, reads |-> g.reads]

\* The package-level Hash(password).
Hash(password, rnd) == ParamsHash(DefaultParams, password, rnd)

\* ---------------------------------------------------------------- Verify

\* The loop over the comma-separated parameters (pbkdf.go:122-140): an
\* element that does not split on '=' in two is skipped, a later i or l
\* overwrites an earlier one, and a value Atoi rejects ends the call.
RECURSIVE ParamLoop(_, _, _)
ParamLoop(params, iterations, keyLen) ==
    IF params = <<>>
    THEN [err |-> FALSE, iterations |-> iterations, keyLen |-> keyLen]
    ELSE
        LET kv == Split(Head(params), "=")
        IN  IF Len(kv) # 2 THEN ParamLoop(Tail(params), iterations, keyLen)
            ELSE IF kv[1] = <<"i">> THEN
                LET a == Atoi(kv[2])
                IN  IF a.err
                    THEN [err |-> TRUE, iterations |-> a.val, keyLen |-> keyLen]
                    ELSE ParamLoop(Tail(params), a.val, keyLen)
            ELSE IF kv[1] = <<"l">> THEN
                LET a == Atoi(kv[2])
                IN  IF a.err
                    THEN [err |-> TRUE, iterations |-> iterations, keyLen |-> a.val]
                    ELSE ParamLoop(Tail(params), iterations, a.val)
            ELSE ParamLoop(Tail(params), iterations, keyLen)

\* The check with && for ||.
BothZero(iterations, keyLen) == iterations = 0 /\ keyLen = 0

\* The check after the loop (pbkdf.go:142): a missing i or l has left its
\* variable at 0.
ZeroParams(iterations, keyLen) == iterations = 0 \/ keyLen = 0

\* Another constructor in Verify.
VerifyHashFuncOther == SHA512

\* The hash constructor Verify passes to pbkdf2.Key (pbkdf.go:156).
VerifyHashFunc == SHA256

\* What Verify returns before it reaches the key derivation.
Rejected ==
    [ok |-> FALSE, err |-> ErrInvalidHash, panicked |-> FALSE, parsed |-> FALSE,
     kdf |-> FALSE, iterations |-> 0, keyLen |-> 0, salt |-> <<>>,
     decodedHash |-> <<>>]

\* Verify(password, encodedHash).  parsed: every check passed; kdf:
\* pbkdf2.Key was called, with iterations and keyLen; panicked: it panicked.
Verify(password, encodedHash) ==
    LET parts == Split(encodedHash, "$")
    IN  IF Len(parts) # 5 THEN Rejected
        ELSE IF parts[2] # AlgTag THEN Rejected
        ELSE
            LET pl == ParamLoop(Split(parts[3], ","), 0, 0)
            IN  IF pl.err THEN Rejected
                ELSE IF ZeroParams(pl.iterations, pl.keyLen) THEN Rejected
                ELSE
                    LET salt == DecodeString(parts[4])
                        decodedHash == DecodeString(parts[5])
                    IN  IF salt.err THEN Rejected
                        ELSE IF decodedHash.err THEN Rejected
                        ELSE IF KeyPanics(pl.keyLen)
                        THEN [ok |-> FALSE, err |-> NilErr, panicked |-> TRUE,
                              parsed |-> TRUE, kdf |-> TRUE,
                              iterations |-> pl.iterations, keyLen |-> pl.keyLen,
                              salt |-> salt.bytes, decodedHash |-> decodedHash.bytes]
                        ELSE
                            LET dk == Key(password, salt.bytes, pl.iterations,
                                          pl.keyLen, VerifyHashFunc)
                            IN  [ok |-> ConstantTimeCompare(dk, decodedHash.bytes) = 1,
                                 err |-> NilErr, panicked |-> FALSE,
                                 parsed |-> TRUE, kdf |-> TRUE,
                                 iterations |-> pl.iterations, keyLen |-> pl.keyLen,
                                 salt |-> salt.bytes, decodedHash |-> decodedHash.bytes]

\* ------------------------------------------------------ the caller's inputs

PwBytes == {0, 97}

RECURSIVE SeqsUpTo(_, _)
SeqsUpTo(S, n) ==
    IF n = 0 THEN {<<>>}
    ELSE LET shorter == SeqsUpTo(S, n - 1)
         IN  shorter \cup {Append(q, x) : q \in shorter, x \in S}

\* Every password of at most MaxPwLen bytes, and one longer than a block.
Passwords == SeqsUpTo(PwBytes, MaxPwLen) \cup {LongPassword}

\* Params values a caller builds: unset (0, nil), positive and negative fields.
ParamChoices ==
    [Iterations : {-1, 0, 1, 1000}, KeyLen : {-1, 0, 1, 33},
     SaltLen : {-1, 0, 3}, HashFunc : {NilFunc, SHA256, SHA512}]

SaltLengths == {-1, 0, 1, 16}

\* Encoded strings that did not come from Hash.  A string is put together
\* from a shape (how it splits on '$'), the text after "i=" and "l=" (or no
\* such element), an optional element that is no key=value pair, a salt
\* field and a key field.
Absent == <<"(", "a", "b", "s", "e", "n", "t", ")">>

\* 2^63, one more than an int holds.
OutOfRange == MinIntText

IntTexts ==
    {Absent, <<"1">>, <<"0">>, <<"-", "1">>, <<"+", "2">>, <<"a", "b", "c">>, <<>>,
     OutOfRange}

Junk == <<"j", "u", "n", "k">>

SaltTexts == {<<"A", "A">>, <<"!", "!">>, <<>>, <<"A", "A", "=", "=">>}

Shapes == {"five", "four", "six", "tag", "single"}

KeyKinds == {"derived", "short", "bad"}

CraftChoices ==
    [shape : Shapes, i : IntTexts, l : IntTexts, junk : BOOLEAN,
     salt : SaltTexts, key : KeyKinds]

\* The password the "derived" key field is derived from, and the passwords
\* a crafted string is verified against.
RefPassword == <<97>>

CraftPasswords == {<<>>, <<97>>, <<97, 0>>}

RECURSIVE Join(_, _)
Join(parts, sep) ==
    IF parts = <<>> THEN <<>>
    ELSE IF Len(parts) = 1 THEN parts[1]
    ELSE parts[1] \o sep \o Join(Tail(parts), sep)

CraftParams(c) ==
    Join((IF c.i = Absent THEN <<>> ELSE <<(<<"i", "=">> \o c.i)>>)
         \o (IF c.l = Absent THEN <<>> ELSE <<(<<"l", "=">> \o c.l)>>)
         \o (IF c.junk THEN <<Junk>> ELSE <<>>),
         <<",">>)

\* The key field: the key a correct Hash would have stored for RefPassword
\* under the string's own salt, i and l; that key less its last byte; or text
\* that is not base64.
CraftKey(c) ==
    LET a == Atoi(c.l)
        n == IF c.l # Absent /\ ~a.err /\ a.val > 0 THEN a.val ELSE 1
        b == Atoi(c.i)
        it == IF c.i = Absent \/ b.err THEN 1 ELSE b.val
        dk == Key(RefPassword, DecodeString(c.salt).bytes, it, n, SHA256)
    IN  IF c.key = "derived" THEN EncodeToString(dk)
        ELSE IF c.key = "short" THEN EncodeToString(SubSeq(dk, 1, n - 1))
        ELSE <<"!", "!">>

Sha512Tag == <<"p", "b", "k", "d", "f", "2", "-", "s", "h", "a", "5", "1", "2">>

Craft(c) ==
    LET tag == IF c.shape = "tag" THEN Sha512Tag ELSE AlgTag
        five == << <<>>, tag, CraftParams(c), c.salt, CraftKey(c) >>
    IN  IF c.shape = "four" THEN Join(SubSeq(five, 1, 4), <<"$">>)
        ELSE IF c.shape = "six" THEN Join(Append(five, <<"x">>), <<"$">>)
        ELSE IF c.shape = "single" THEN Join(five, <<>>)
        ELSE Join(five, <<"$">>)

\* ---------------------------------------------------------------- state

VARIABLES
    pc,     \* "idle", or the call that has returned: "salted", "hashed", "verified"
    glen,   \* GenerateSalt: the length asked for
    grnd,   \* GenerateSalt: what the random source does if it is read
    g,      \* GenerateSalt: what it returned
    hvia,   \* "Hash" or "Params.Hash"
    hp,     \* the receiver of Params.Hash
    hpw,    \* the password hashed
    h,      \* what Params.Hash returned, with its locals
    vsrc,   \* "stored": Verify of the string Hash returned; "crafted"
    vc,     \* the make-up of a crafted string
    vpw,    \* the password verified
    venc,   \* the encoded string verified
    v       \* what Verify returned, with its locals

vars == <<pc, glen, grnd, g, hvia, hp, hpw, h, vsrc, vc, vpw, venc, v>>

NoCraft ==
    [shape |-> "five", i |-> Absent, l |-> Absent, junk |-> FALSE,
     salt |-> <<>>, key |-> "bad"]

NoHash ==
    [resolved |-> DefaultParams, salt |-> <<>>, dk |-> <<>>, out |-> <<>>,
     err |-> NilErr, panicked |-> FALSE, reads |-> 0]

Init ==
    /\ pc = "idle"
    /\ glen = 0
    /\ grnd = [fail |-> FALSE, seed |-> 0]
    /\ g = [salt |-> <<>>, err |-> NilErr, reads |-> 0]
    /\ hvia = "Hash"
    /\ hp = DefaultParams
    /\ hpw = <<>>
    /\ h = NoHash
    /\ vsrc = "crafted"
    /\ vc = NoCraft
    /\ vpw = <<>>
    /\ venc = <<>>
    /\ v = Rejected

\* A call of GenerateSalt(length).
GenerateSaltCall ==
    /\ pc = "idle"
    /\ \E length \in SaltLengths, rnd \in RandOutcomes :
        /\ glen' = length
        /\ grnd' = rnd
        /\ g' = GenerateSalt(length, rnd)
    /\ pc' = "salted"
    /\ UNCHANGED <<hvia, hp, hpw, h, vsrc, vc, vpw, venc, v>>

\* A call of p.Hash(password).
ParamsHashCall ==
    /\ pc = "idle"
    /\ \E p \in ParamChoices, password \in Passwords, rnd \in RandOutcomes :
        /\ hp' = p
        /\ hpw' = password
        /\ h' = ParamsHash(p, password, rnd)
    /\ hvia' = "Params.Hash"
    /\ pc' = "hashed"
    /\ UNCHANGED <<glen, grnd, g, vsrc, vc, vpw, venc, v>>

\* A call of the package-level Hash(password).
HashCall ==
    /\ pc = "idle"
    /\ \E password \in Passwords, rnd \in RandOutcomes :
        /\ hpw' = password
        /\ h' = Hash(password, rnd)
    /\ hp' = DefaultParams
    /\ hvia' = "Hash"
    /\ pc' = "hashed"
    /\ UNCHANGED <<glen, grnd, g, vsrc, vc, vpw, venc, v>>

\* Verify(password, s) of the string s a Hash call returned.
VerifyStored ==
    /\ pc = "hashed"
    /\ h.err = NilErr
    /\ ~h.panicked
    /\ \E password \in Passwords :
        /\ vpw' = password
        /\ v' = Verify(password, h.out)
    /\ venc' = h.out
    /\ vsrc' = "stored"
    /\ pc' = "verified"
    /\ UNCHANGED <<glen, grnd, g, hvia, hp, hpw, h, vc>>

\* Verify(password, s) of a string s from anywhere else.
VerifyCrafted ==
    /\ pc = "idle"
    /\ \E password \in CraftPasswords, c \in CraftChoices :
        /\ vpw' = password
        /\ vc' = c
        /\ venc' = Craft(c)
        /\ v' = Verify(password, Craft(c))
    /\ vsrc' = "crafted"
    /\ pc' = "verified"
    /\ UNCHANGED <<glen, grnd, g, hvia, hp, hpw, h>>

Next ==
    \/ GenerateSaltCall
    \/ ParamsHashCall
    \/ HashCall
    \/ VerifyStored
    \/ VerifyCrafted

Spec == Init /\ [][Next]_vars

\* ---------------------------------------------------------------- claims

\* The parameter sets the package documents as valid: every integer field
\* zero or positive, HashFunc unset or SHA-256.
ValidParams(p) ==
    /\ p.Iterations >= 0
    /\ p.KeyLen >= 0
    /\ p.SaltLen >= 0
    /\ p.HashFunc \in {NilFunc, SHA256}

\* Verify has returned from a call on the string a Hash call returned.
VerifiedStored == pc = "verified" /\ vsrc = "stored"

VerifiedCrafted == pc = "verified" /\ vsrc = "crafted"

\* C1: round trip.  For every password and every valid parameter set, a Hash
\* call whose salt generation succeeds returns a string (it neither fails
\* nor panics), and Verify of the same password and that string returns
\* (true, nil).  The same for the package-level Hash.
C1_RoundTrip ==
    /\ (pc = "hashed" /\ ValidParams(hp) /\ h.err # ErrRandRead)
          => (h.err = NilErr /\ ~h.panicked)
    /\ (VerifiedStored /\ ValidParams(hp) /\ vpw = hpw)
          => (v.ok /\ v.err = NilErr /\ ~v.panicked)

\* C1 witness: the empty password, hashed with 1000 iterations and a key of
\* two blocks, has been verified.
C1_Witness ==
    /\ VerifiedStored
    /\ hvia = "Params.Hash"
    /\ hp.Iterations = 1000 /\ hp.KeyLen = 33 /\ hp.SaltLen = 0
    /\ hp.HashFunc = NilFunc
    /\ hpw = <<>> /\ vpw = <<>>
    /\ v.ok

\* C2 as stated: for all P1 # P2 and every valid parameter set,
\* Verify(P2, p.Hash(P1)) returns false with a nil error.
C2_WrongPasswordIsFalse ==
    (VerifiedStored /\ ValidParams(hp) /\ vpw # hpw)
        => (~v.ok /\ v.err = NilErr)

\* C2 amended: for all P1 # P2 and every valid parameter set,
\* Verify(P2, p.Hash(P1)) returns a nil error, and it returns false exactly
\* when PBKDF2-SHA256 of P2 under the stored salt, i and l differs from the
\* stored key.  P1 # P2 does not suffice for that: a P2 with the same HMAC
\* key as P1 (the two differ only in trailing zero bytes) verifies true.
C2_WrongPasswordNoError ==
    (VerifiedStored /\ ValidParams(hp) /\ vpw # hpw)
        => /\ v.err = NilErr
           /\ ~v.panicked
           /\ v.ok <=> (Key(vpw, h.salt, h.resolved.Iterations,
                            h.resolved.KeyLen, SHA256) = h.dk)
           /\ HmacKey(SHA256, vpw) = HmacKey(SHA256, hpw) => v.ok

\* C2 witness: a password with another HMAC key has been rejected without
\* an error.
C2_Witness ==
    /\ VerifiedStored
    /\ ValidParams(hp)
    /\ hpw = <<97>> /\ vpw = <<0, 97>>
    /\ ~v.ok /\ v.err = NilErr

\* The number of '$'-separated fields of a text.
FieldCount(s) == Cardinality({k \in 1..Len(s) : s[k] = "$"}) + 1

\* The texts after "i=" or "l=" that are missing, not numeric (no digits,
\* no text, or digits no int holds) or zero.
BadIntTexts == {Absent, <<"a", "b", "c">>, <<>>, <<"0">>, OutOfRange}

\* The crafted string has one of the malformed shapes of C3.
Malformed ==
    \/ FieldCount(venc) # 5
    \/ vc.shape = "tag"
    \/ vc.i \in BadIntTexts
    \/ vc.l \in BadIntTexts
    \/ vc.salt \in {<<"!", "!">>, <<"A", "A", "=", "=">>}
    \/ vc.key = "bad"

\* C3: every error Verify returns is the one generic error "invalid or
\* corrupted hash", always with the result false; and Verify returns it for
\* each malformed shape: a field count other than 5, another algorithm
\* field, a missing, non-numeric or zero i or l, invalid raw base64 in the
\* salt or the key field.
C3_UniformError ==
    pc = "verified"
        => /\ v.err \in {NilErr, ErrInvalidHash}
           /\ v.err # NilErr => ~v.ok
           /\ (vsrc = "crafted" /\ Malformed)
                 => (v.err = ErrInvalidHash /\ ~v.ok /\ ~v.panicked)

\* C3 witness: a string whose only fault is a missing l has been rejected.
C3_Witness ==
    /\ VerifiedCrafted
    /\ vc.shape = "five" /\ vc.i = <<"1">> /\ vc.l = Absent /\ ~vc.junk
    /\ vc.salt = <<"A", "A">> /\ vc.key = "derived"
    /\ v.err = ErrInvalidHash

\* The texts after "i=" or "l=" that are a non-negative, nonzero integer.
GoodIntTexts == {<<"1">>, <<"+", "2">>}

\* C4 as stated: Verify accepts field 2 only when it is a list of key=value
\* pairs with i and l both present, each a non-negative nonzero integer; a
\* string with a negative i or l, or with an element that is no key=value
\* pair, is rejected with the generic error and never reaches the key
\* derivation.
C4_StrictParameters ==
    VerifiedCrafted
        => /\ v.parsed => (vc.i \in GoodIntTexts /\ vc.l \in GoodIntTexts /\ ~vc.junk)
           /\ (vc.i = <<"-", "1">> \/ vc.l = <<"-", "1">> \/ vc.junk)
                 => (v.err = ErrInvalidHash /\ ~v.kdf)

\* "i=1000,l=32" and "i=120000,l=32"
TextI1000L32 == <<"i", "=", "1", "0", "0", "0", ",", "l", "=", "3", "2">>

TextDefaults == <<"i", "=", "1", "2", "0", "0", "0", "0", ",", "l", "=", "3", "2">>

\* C5: Params.Hash replaces each of Iterations, KeyLen, SaltLen that is 0,
\* and a nil HashFunc, by the default (120000, 32, 16, SHA-256) and keeps
\* every other value, so no field is zero afterwards; the all-zero Params
\* gives exactly the defaults; Params{Iterations: 1000} gives "i=1000,l=32"
\* and a salt of 16 bytes.
C5_Resolution ==
    pc = "hashed"
        => /\ h.resolved.Iterations = (IF hp.Iterations = 0 THEN 120000 ELSE hp.Iterations)
           /\ h.resolved.KeyLen = (IF hp.KeyLen = 0 THEN 32 ELSE hp.KeyLen)
           /\ h.resolved.SaltLen = (IF hp.SaltLen = 0 THEN 16 ELSE hp.SaltLen)
           /\ h.resolved.HashFunc = (IF hp.HashFunc = NilFunc THEN SHA256 ELSE hp.HashFunc)
           /\ h.resolved.Iterations # 0 /\ h.resolved.KeyLen # 0
           /\ h.resolved.SaltLen # 0 /\ h.resolved.HashFunc # NilFunc
           /\ (hp.Iterations \in {0, 1000} /\ hp.KeyLen = 0 /\ hp.SaltLen = 0
               /\ hp.HashFunc = NilFunc /\ h.err = NilErr)
                 => /\ Split(h.out, "$")[3] =
                          (IF hp.Iterations = 0 THEN TextDefaults ELSE TextI1000L32)
                    /\ Len(DecodeString(Split(h.out, "$")[4]).bytes) = 16
                    /\ Len(DecodeString(Split(h.out, "$")[5]).bytes) = 32

\* C5 witness: Params{Iterations: 1000} has hashed a password.
C5_Witness ==
    /\ pc = "hashed"
    /\ hp = [Iterations |-> 1000, KeyLen |-> 0, SaltLen |-> 0, HashFunc |-> NilFunc]
    /\ h.err = NilErr
    /\ h.resolved.KeyLen = 32 /\ Len(h.salt) = 16

\* The length of the unpadded base64 text of n bytes.
RawLen(n) == (n * 8 + 5) \div 6

\* C6: a string Hash returns with a nil error splits on '$' into exactly five
\* fields: an empty one, "pbkdf2-sha256", "i=<iterations>,l=<key length>"
\* with the resolved values in decimal, the unpadded base64 of a salt of
\* exactly the resolved SaltLen bytes and the unpadded base64 of a key of
\* exactly the resolved KeyLen bytes, with no '=' in either.  With the
\* default parameters field 2 is "i=120000,l=32" and the salt has 16 bytes.
C6_WireFormat ==
    (pc = "hashed" /\ h.err = NilErr /\ ~h.panicked)
        => LET parts == Split(h.out, "$")
               kv == Split(parts[3], ",")
               salt == DecodeString(parts[4])
               key == DecodeString(parts[5])
           IN  /\ FieldCount(h.out) = 5
               /\ Len(parts) = 5
               /\ parts[1] = <<>>
               /\ parts[2] = AlgTag
               /\ Len(kv) = 2
               /\ SubSeq(kv[1], 1, 2) = <<"i", "=">>
               /\ SubSeq(kv[2], 1, 2) = <<"l", "=">>
               /\ Atoi(SubSeq(kv[1], 3, Len(kv[1]))) =
                      [err |-> FALSE, val |-> h.resolved.Iterations]
               /\ Atoi(SubSeq(kv[2], 3, Len(kv[2]))) =
                      [err |-> FALSE, val |-> h.resolved.KeyLen]
               /\ \A k \in 1..Len(parts[4]) : InAlphabet(parts[4][k])
               /\ \A k \in 1..Len(parts[5]) : InAlphabet(parts[5][k])
               /\ Len(parts[4]) = RawLen(h.resolved.SaltLen)
               /\ Len(parts[5]) = RawLen(h.resolved.KeyLen)
               /\ salt = [err |-> FALSE, bytes |-> h.salt]
               /\ Len(salt.bytes) = h.resolved.SaltLen
               /\ key = [err |-> FALSE, bytes |-> h.dk]
               /\ Len(key.bytes) = h.resolved.KeyLen
               /\ hvia = "Hash" => (parts[3] = TextDefaults /\ Len(salt.bytes) = 16)

\* C6 witness: the package-level Hash has returned a string.
C6_Witness ==
    /\ pc = "hashed"
    /\ hvia = "Hash"
    /\ hpw = <<97>>
    /\ h.err = NilErr
    /\ Len(h.out) = 95

\* C7: GenerateSalt(length) returns nil and the error "salt length must be
\* positive", without reading the random source, for every length <= 0; a
\* slice of exactly length bytes and a nil error for length > 0 when the
\* random source works; nil and the source's own error when it fails.
C7_GenerateSalt ==
    pc = "salted"
        => /\ glen <= 0 => (g.salt = <<>> /\ g.err = ErrSaltLength /\ g.reads = 0)
           /\ (glen > 0 /\ ~grnd.fail)
                 => (Len(g.salt) = glen /\ g.err = NilErr /\ g.reads = 1)
           /\ (glen > 0 /\ grnd.fail) => (g.salt = <<>> /\ g.err = ErrRandRead)

\* C7 witness: GenerateSalt(0) has failed.
C7_Witness ==
    /\ pc = "salted"
    /\ glen = 0
    /\ g.err = ErrSaltLength

\* C8 as stated: for every password and every string, Verify ends with
\* (true, nil), (false, nil) or (false, generic error); it never panics, and
\* the key derivation is only called with an iteration count and a key
\* length that are both strictly positive.
C8_VerifyTotal ==
    pc = "verified"
        => /\ ~v.panicked
           /\ v.ok => v.err = NilErr
           /\ v.err \in {NilErr, ErrInvalidHash}
           /\ v.kdf => (v.iterations > 0 /\ v.keyLen > 0)

\* C9 as stated: once parsing succeeds, Verify returns (true, nil) if and
\* only if PBKDF2-SHA256 of the password under the parsed salt, i and l
\* equals the decoded stored key, and (false, nil) otherwise; when the
\* decoded key's length differs from the parsed l the result is (false, nil).
C9_VerifyDecision ==
    (pc = "verified" /\ v.parsed)
        => /\ ~v.panicked
           /\ v.err = NilErr
           /\ v.ok <=> (Key(vpw, v.salt, v.iterations, v.keyLen, SHA256) = v.decodedHash)
           /\ Len(v.decodedHash) # v.keyLen => ~v.ok

\* C10: Hash writes the tag "pbkdf2-sha256" and no other mark of the family
\* whatever HashFunc derived the key, and Verify of such a string parses
\* without error and returns whether PBKDF2 with SHA-256 of the password
\* gives the stored key, whatever family stored it.
C10_FixedFamily ==
    /\ ((pc = "hashed" \/ VerifiedStored) /\ h.err = NilErr /\ ~h.panicked)
          => (Split(h.out, "$")[2] = AlgTag /\ FieldCount(h.out) = 5)
    /\ VerifiedStored
          => /\ v.parsed /\ v.err = NilErr /\ ~v.panicked
             /\ v.ok <=> (Key(vpw, h.salt, h.resolved.Iterations,
                              h.resolved.KeyLen, SHA256) = h.dk)

\* C10 witness: a key derived with SHA-512 has been verified with the
\* password that was hashed: no error, and no match.
C10_Witness ==
    /\ VerifiedStored
    /\ hp.HashFunc = SHA512
    /\ vpw = hpw
    /\ v.err = NilErr
    /\ ~v.ok

=============================================================================
